---- MODULE Spec2Model ----
(***************************************************************************)
(* Goal Guardian: the event-sourced state store (stateStore.ts).           *)
(*                                                                         *)
(* The workspace directory .cursor/goal-guardian holds state.json,         *)
(* actions.jsonl, snapshot.json, contract.json, rules.json and reducer.js. *)
(* dispatchAction and rebuildState are the two writers of the store; the   *)
(* files can also be edited from outside the engine.                       *)
(*                                                                         *)
(* Modelling conventions                                                   *)
(*   - a JSON document is a record, an array a sequence;                   *)
(*   - an optional payload field is a sequence of length 0 (absent) or 1;  *)
(*   - null is the string Null; the field _meta is written meta;           *)
(*   - sha256 is taken to be injective: the hash of a document is the      *)
(*     one-element sequence holding the hashed content, the empty string   *)
(*     "" is the empty sequence;                                           *)
(*   - newId draws a random UUID: it is modelled as the next unused        *)
(*     element of GenIds (ids are only ever compared for equality);        *)
(*   - nowIso() reads the variable clock, which Tick advances. The store   *)
(*     never compares a timestamp with the time, so only SpecJs and        *)
(*     SpecConc let the clock run; Spec and SpecEdit spend their states    *)
(*     on longer logs and on edits.                                        *)
(***************************************************************************)
EXTENDS Naturals, Integers, Sequences, FiniteSets, TLC

\* ------------------------------------------------------------------ bounds
\* the longest action log, per specification
MaxActions == 4
MaxEditActions == 2
MaxJsActions == 2
MaxConcActions == 2
\* the latest time the clock reaches
MaxClock == 1
\* how many ids newId hands out
MaxIds == 7
\* how many edits are made from outside the engine
MaxTampers == 1
\* the last minute the hook runs in
MaxGateClock == 3
\* the most records in checks.json, permits.json and progress.json together
MaxRecords == 3

\* ------------------------------------------------------------- basic values
Null == "<null>"
EmptyHash == <<>>
None == <<>>
Some(v) == <<v>>

GenIds ==
  <<"u01", "u02", "u03", "u04", "u05", "u06", "u07", "u08", "u09", "u10",
    "u11", "u12", "u13", "u14", "u15", "u16", "u17", "u18", "u19", "u20",
    "u21", "u22", "u23", "u24", "u25", "u26", "u27", "u28", "u29", "u30">>

\* newId(prefix): the id drawn when n ids have been drawn before
newId(n) == GenIds[n + 1]

TaskStatuses == {"todo", "doing", "done"}
QuestionStatuses == {"open", "closed"}
Actors == {"agent", "human"}
KnownTypes ==
  {"SET_GOAL", "ADD_TASKS", "START_TASK", "COMPLETE_TASK", "OPEN_QUESTION",
   "CLOSE_QUESTION", "ADD_DECISION", "PIN_CONTEXT", "UNPIN_CONTEXT"}

\* ------------------------------------------------------------ sequence helpers
SeqWithout(s, x) ==
  LET RECURSIVE go(_)
      go(r) == IF r = <<>> THEN <<>>
               ELSE IF Head(r) = x THEN go(Tail(r))
                    ELSE <<Head(r)>> \o go(Tail(r))
  IN go(s)

Range(s) == {s[i] : i \in 1..Len(s)}

\* Array.prototype.find by id: the index of the first element with that id, 0 if none
FindIndex(s, id) ==
  IF \E i \in 1..Len(s) : s[i].id = id
  THEN CHOOSE i \in 1..Len(s) : s[i].id = id /\ \A j \in 1..(i - 1) : s[j].id # id
  ELSE 0

\* ------------------------------------------------------------------- hashing
\* computeHash: sha256 of the stable serialisation of the state with _meta.hash = ""
computeHash(state) == <<[state EXCEPT !.meta.hash = EmptyHash]>>

\* defaultState(), at time now
defaultState(now) ==
  LET base == [schemaVersion |-> 1,
               goal |-> "",
               definition_of_done |-> <<>>,
               constraints |-> <<>>,
               active_task |-> Null,
               tasks |-> <<>>,
               queue |-> <<>>,
               open_questions |-> <<>>,
               decisions |-> <<>>,
               pinned_context |-> <<>>,
               meta |-> [lastActionId |-> Null,
                         lastUpdated |-> now,
                         actionCount |-> 0,
                         hash |-> EmptyHash]]
  IN [base EXCEPT !.meta.hash = computeHash(base)]

\* defaultRules()
defaultRules ==
  [preferredReducer |-> "json",
   strictMode |-> TRUE,
   snapshotInterval |-> 25,
   syncContractFromState |-> TRUE,
   invariants |-> [singleActiveTask |-> TRUE,
                   requireDecisionForTaskSwitch |-> TRUE,
                   disallowTodoToDone |-> TRUE]]

\* validateState accepting whatever it is given
validateStateAny(state) == TRUE

\* validateState: the part of stateSchema a modelled document can fail
validateState(state) ==
  /\ \A i \in 1..Len(state.tasks) : state.tasks[i].status \in TaskStatuses
  /\ \A i \in 1..Len(state.open_questions) :
        state.open_questions[i].status \in QuestionStatuses

\* validateAction: actionSchema (id, ts, type and payload are well-typed by construction)
validateAction(action) == action.actor \in Actors

\* ------------------------------------------------------------------- reducer
\* A reducer result: ok with the next state and the number of ids drawn so far,
\* or an error (the thrown Error's message) with the inputs untouched.
Thrown(msg, state, ids) == [ok |-> FALSE, error |-> msg, state |-> state, ids |-> ids]
Returned(state, ids) == [ok |-> TRUE, error |-> "", state |-> state, ids |-> ids]

\* the loop of ADD_TASKS: acc is <<tasks, queue, ids>>
RECURSIVE addTasks(_, _, _, _)
addTasks(tasks, queue, ids, todo) ==
  IF todo = <<>> THEN [tasks |-> tasks, queue |-> queue, ids |-> ids]
  ELSE LET t == Head(todo)
           drawn == t.id = None
           id == IF drawn THEN newId(ids) ELSE t.id[1]
           ids2 == IF drawn THEN ids + 1 ELSE ids
       IN IF \E i \in 1..Len(tasks) : tasks[i].id = id
          THEN addTasks(tasks, queue, ids2, Tail(todo))
          ELSE addTasks(Append(tasks, [id |-> id, title |-> t.title, status |-> "todo"]),
                        Append(queue, id), ids2, Tail(todo))

\* lines 462-465: the _meta stamp
stampMeta(next, state, action, now) ==
  LET n1 == [next EXCEPT !.meta = [lastActionId |-> action.id,
                                   lastUpdated |-> now,
                                   actionCount |-> state.meta.actionCount + 1,
                                   hash |-> state.meta.hash]]
  IN [n1 EXCEPT !.meta.hash = computeHash(n1)]

\* START_TASK with the decision gate left out
StartTaskNoGate(state, payload, rls) ==
  LET k == FindIndex(state.tasks, payload.taskId)
  IN IF k = 0 THEN [ok |-> FALSE, error |-> "Task not found", state |-> state]
     ELSE [ok |-> TRUE, error |-> "",
           state |-> [state EXCEPT !.active_task = payload.taskId,
                                   !.tasks[k].status = "doing"]]

\* case "START_TASK"
StartTask(state, payload, rls) ==
  LET k == FindIndex(state.tasks, payload.taskId)
      decisionId == IF payload.decision_id = None THEN "" ELSE payload.decision_id[1]
      hasDecision == \E i \in 1..Len(state.decisions) : state.decisions[i].id = decisionId
  IN IF k = 0 THEN [ok |-> FALSE, error |-> "Task not found", state |-> state]
     ELSE IF /\ rls.invariants.singleActiveTask
             /\ state.active_task # Null
             /\ state.active_task # payload.taskId
             /\ rls.invariants.requireDecisionForTaskSwitch
             /\ ~hasDecision
          THEN [ok |-> FALSE, error |-> "Decision required to switch active task",
                state |-> state]
          ELSE [ok |-> TRUE, error |-> "",
                state |-> [state EXCEPT !.active_task = payload.taskId,
                                        !.tasks[k].status = "doing"]]

\* COMPLETE_TASK leaving the completed task the active one
clearActiveNever(active, taskId) == active

\* if (next.active_task === taskId) next.active_task = null
clearActive(active, taskId) == IF active = taskId THEN Null ELSE active

\* COMPLETE_TASK with the not-started check left out
CompleteTaskNoCheck(state, payload, rls) ==
  LET k == FindIndex(state.tasks, payload.taskId)
  IN IF k = 0 THEN [ok |-> FALSE, error |-> "Task not found", state |-> state]
     ELSE [ok |-> TRUE, error |-> "",
           state |-> [state EXCEPT
                        !.tasks[k].status = "done",
                        !.active_task = clearActive(@, payload.taskId),
                        !.queue = SeqWithout(@, payload.taskId)]]

\* case "COMPLETE_TASK"
CompleteTask(state, payload, rls) ==
  LET k == FindIndex(state.tasks, payload.taskId)
  IN IF k = 0 THEN [ok |-> FALSE, error |-> "Task not found", state |-> state]
     ELSE IF /\ rls.invariants.disallowTodoToDone
             /\ state.tasks[k].status = "todo"
             /\ ~payload.allowSkip
          THEN [ok |-> FALSE, error |-> "Cannot complete a task that has not been started",
                state |-> state]
          ELSE [ok |-> TRUE, error |-> "",
                state |-> [state EXCEPT
                             !.tasks[k].status = "done",
                             !.active_task = clearActive(@, payload.taskId),
                             !.queue = SeqWithout(@, payload.taskId)]]

\* applyActionJson(state, action, rules): the built-in transition table
applyActionJson(state, action, rls, now, ids) ==
  LET payload == action.payload
      done(next, ids2) ==
        LET stamped == stampMeta(next, state, action, now)
        IN IF validateState(stamped) THEN Returned(stamped, ids2)
           ELSE Thrown("Invalid state", state, ids)
  IN CASE action.type = "SET_GOAL" ->
            done([state EXCEPT
                    !.goal = payload.goal,
                    !.definition_of_done =
                       IF payload.definition_of_done = None THEN @
                       ELSE payload.definition_of_done[1],
                    !.constraints =
                       IF payload.constraints = None THEN @
                       ELSE payload.constraints[1]], ids)
       [] action.type = "ADD_TASKS" ->
            LET r == addTasks(state.tasks, state.queue, ids, payload.tasks)
            IN done([state EXCEPT !.tasks = r.tasks, !.queue = r.queue], r.ids)
       [] action.type = "START_TASK" ->
            LET r == StartTask(state, payload, rls)
            IN IF r.ok THEN done(r.state, ids) ELSE Thrown(r.error, state, ids)
       [] action.type = "COMPLETE_TASK" ->
            LET r == CompleteTask(state, payload, rls)
            IN IF r.ok THEN done(r.state, ids) ELSE Thrown(r.error, state, ids)
       [] action.type = "OPEN_QUESTION" ->
            IF payload.text = "" THEN Thrown("OPEN_QUESTION requires text", state, ids)
            ELSE done([state EXCEPT !.open_questions =
                         Append(@, [id |-> newId(ids), text |-> payload.text,
                                    ts |-> now, status |-> "open"])], ids + 1)
       [] action.type = "CLOSE_QUESTION" ->
            LET k == FindIndex(state.open_questions, payload.id)
            IN IF k = 0 THEN Thrown("Question not found", state, ids)
               ELSE done([state EXCEPT !.open_questions[k].status = "closed"], ids)
       [] action.type = "ADD_DECISION" ->
            IF payload.text = "" \/ payload.rationale = ""
            THEN Thrown("ADD_DECISION requires text and rationale", state, ids)
            ELSE done([state EXCEPT !.decisions =
                         Append(@, [id |-> newId(ids), text |-> payload.text,
                                    rationale |-> payload.rationale, ts |-> now])],
                      ids + 1)
       [] action.type = "PIN_CONTEXT" ->
            done([state EXCEPT !.pinned_context =
                    IF payload.path # "" /\ payload.path \notin Range(@)
                    THEN Append(@, payload.path) ELSE @], ids)
       [] action.type = "UNPIN_CONTEXT" ->
            done([state EXCEPT !.pinned_context = SeqWithout(@, payload.path)], ids)
       [] OTHER -> Thrown("Unknown action type", state, ids)

\* ------------------------------------------------------------ reducer.js
\* The user-supplied reducer module, by what it exports:
\*   "template"   the file ensureStateStoreFiles writes: returns the state unchanged
\*   "unloadable" no function can be imported from it (loadJsReducer returns null)
\*   "badshape"   a function whose result fails stateSchema
\*   "rewrites"   a function whose result is a valid state with a goal of its own
ReducerFiles == {"template", "unloadable", "badshape", "rewrites"}

jsReducer(kind, state, action) ==
  IF kind = "badshape"
  THEN [state EXCEPT !.tasks = Append(@, [id |-> "x", title |-> "x", status |-> "blocked"])]
  ELSE IF kind = "rewrites" THEN [state EXCEPT !.goal = "Goal (js)"]
  ELSE state

\* reduceAction returning the state as it is when reducer.js cannot be loaded
reduceActionNoFallback(state, action, rls, reducerJs, now, ids) ==
  IF ~validateAction(action) THEN Thrown("Invalid action", state, ids)
  ELSE IF rls.preferredReducer = "js"
       THEN LET next == jsReducer(reducerJs, state, action)
            IN IF validateState(next) THEN Returned(next, ids)
               ELSE Thrown("Invalid state", state, ids)
       ELSE applyActionJson(state, action, rls, now, ids)

\* reduceAction(workspaceRoot, state, action)
reduceAction(state, action, rls, reducerJs, now, ids) ==
  IF ~validateAction(action) THEN Thrown("Invalid action", state, ids)
  ELSE IF rls.preferredReducer = "js" /\ reducerJs # "unloadable"
       THEN LET next == jsReducer(reducerJs, state, action)
            IN IF validateState(next) THEN Returned(next, ids)
               ELSE Thrown("Invalid state", state, ids)
       ELSE applyActionJson(state, action, rls, now, ids)

\* ------------------------------------------------------------------ the store
\* The files of .cursor/goal-guardian. A missing file has exists = FALSE and a
\* fixed placeholder content.
MissingState == [exists |-> FALSE, doc |-> defaultState(0)]
MissingActions == [exists |-> FALSE, log |-> <<>>]
MissingSnapshot == [exists |-> FALSE, lastActionIndex |-> -1, state |-> defaultState(0)]
MissingContract ==
  [exists |-> FALSE, goal |-> "", success_criteria |-> <<>>, constraints |-> <<>>]

\* seedStateFromContract: null (here: the default state) when there is no contract
seedStateFromContract(contract, now) ==
  IF contract.exists
  THEN LET base == [defaultState(now) EXCEPT
                      !.goal = contract.goal,
                      !.definition_of_done = contract.success_criteria,
                      !.constraints = contract.constraints]
       IN [base EXCEPT !.meta.hash = computeHash(base)]
  ELSE defaultState(now)

\* ensureStateStoreFiles: state.json and actions.jsonl are created when missing
ensureStateStoreFiles(st, now) ==
  [st EXCEPT
     !.state = IF @.exists THEN @
               ELSE [exists |-> TRUE, doc |-> seedStateFromContract(st.contract, now)],
     !.actions = [@ EXCEPT !.exists = TRUE]]

\* syncContractFromState
syncContractFromState(state) ==
  [exists |-> TRUE, goal |-> state.goal,
   success_criteria |-> state.definition_of_done, constraints |-> state.constraints]

\* lines 500-505: the strict-mode check of the loaded state
HashMismatch(rls, current) ==
  /\ rls.strictMode
  /\ current.meta.hash # EmptyHash
  /\ current.meta.hash # computeHash(current)

\* The outcome of an operation on the store: the store it leaves, the ids drawn
\* and whether it returned or threw.
Outcome(ok, error, st, ids) == [ok |-> ok, error |-> error, store |-> st, ids |-> ids]

\* dispatchAction appending the action to the log before it is reduced
dispatchCommitAppendFirst(st, current, partial, rls, reducerJs, now, ids) ==
  LET action == [id |-> newId(ids), ts |-> now, actor |-> partial.actor,
                 type |-> partial.type, payload |-> partial.payload]
      r == reduceAction(current, action, rls, reducerJs, now, ids + 1)
      log == Append(st.actions.log, action)
      snap == IF rls.snapshotInterval > 0 /\ Len(log) % rls.snapshotInterval = 0
              THEN [exists |-> TRUE, lastActionIndex |-> Len(log) - 1, state |-> r.state]
              ELSE st.snapshot
  IN IF ~r.ok THEN Outcome(FALSE, r.error, [st EXCEPT !.actions.log = log], ids + 1)
     ELSE Outcome(TRUE, "",
                  [state |-> [exists |-> TRUE, doc |-> r.state],
                   actions |-> [exists |-> TRUE, log |-> log],
                   snapshot |-> snap,
                   contract |-> IF rls.syncContractFromState
                                THEN syncContractFromState(r.state)
                                ELSE st.contract],
                  r.ids)

\* dispatchAction from line 507 on: build the action, reduce, append, persist,
\* sync the contract and snapshot. current is the state loaded at line 498.
dispatchCommit(st, current, partial, rls, reducerJs, now, ids) ==
  LET action == [id |-> newId(ids), ts |-> now, actor |-> partial.actor,
                 type |-> partial.type, payload |-> partial.payload]
      r == reduceAction(current, action, rls, reducerJs, now, ids + 1)
      log == Append(st.actions.log, action)
      snap == IF rls.snapshotInterval > 0 /\ Len(log) % rls.snapshotInterval = 0
              THEN [exists |-> TRUE, lastActionIndex |-> Len(log) - 1, state |-> r.state]
              ELSE st.snapshot
  IN IF ~r.ok THEN Outcome(FALSE, r.error, st, ids)
     ELSE Outcome(TRUE, "",
                  [state |-> [exists |-> TRUE, doc |-> r.state],
                   actions |-> [exists |-> TRUE, log |-> log],
                   snapshot |-> snap,
                   contract |-> IF rls.syncContractFromState
                                THEN syncContractFromState(r.state)
                                ELSE st.contract],
                  r.ids)

\* dispatchAction repairing the stored hash when it reports the mismatch
dispatchActionHealing(st, partial, rls, reducerJs, now, ids) ==
  LET ens == ensureStateStoreFiles(st, now)
      current == ens.state.doc
  IN IF HashMismatch(rls, current)
     THEN Outcome(FALSE, "State file was edited manually",
                  [ens EXCEPT !.state.doc.meta.hash = computeHash(current)], ids)
     ELSE dispatchCommit(ens, current, partial, rls, reducerJs, now, ids)

\* dispatchAction(workspaceRoot, partial), run without interruption
dispatchAction(st, partial, rls, reducerJs, now, ids) ==
  LET ens == ensureStateStoreFiles(st, now)
      current == ens.state.doc
  IN IF HashMismatch(rls, current)
     THEN Outcome(FALSE, "State file was edited manually", ens, ids)
     ELSE dispatchCommit(ens, current, partial, rls, reducerJs, now, ids)

\* the replay loop of rebuildState, over actions[i..] (1-based)
RECURSIVE replay(_, _, _, _, _, _, _)
replay(state, log, i, rls, reducerJs, now, ids) ==
  IF i > Len(log) THEN Returned(state, ids)
  ELSE LET r == reduceAction(state, log[i], rls, reducerJs, now, ids)
       IN IF ~r.ok THEN r
          ELSE replay(r.state, log, i + 1, rls, reducerJs, now, r.ids)

\* rebuildState(workspaceRoot)
rebuildState(st, rls, reducerJs, now, ids) ==
  LET ens == ensureStateStoreFiles(st, now)
      snapshot == ens.snapshot
      log == ens.actions.log
      start == IF snapshot.exists THEN snapshot.state
               ELSE seedStateFromContract(ens.contract, now)
      startIndex == IF snapshot.exists THEN snapshot.lastActionIndex + 1 ELSE 0
      r == replay(start, log, startIndex + 1, rls, reducerJs, now, ids)
      s1 == [r.state EXCEPT !.meta.actionCount = Len(log), !.meta.lastUpdated = now]
      state == [s1 EXCEPT !.meta.hash = computeHash(s1)]
  IN IF ~r.ok THEN Outcome(FALSE, r.error, ens, ids)
     ELSE IF ~validateState(state) THEN Outcome(FALSE, "Invalid state", ens, ids)
     ELSE Outcome(TRUE, "",
                  [state |-> [exists |-> TRUE, doc |-> state],
                   actions |-> ens.actions,
                   snapshot |-> IF rls.snapshotInterval > 0
                                THEN [exists |-> TRUE,
                                      lastActionIndex |-> Len(log) - 1,
                                      state |-> state]
                                ELSE ens.snapshot,
                   contract |-> IF rls.syncContractFromState
                                THEN syncContractFromState(state)
                                ELSE ens.contract],
                  r.ids)

\* ============================================================ the action gate
\* The hook (cursor-goal-guardian-hook, cli.ts) runs once per Cursor event: it
\* reads the event from stdin, the policy, permits.json, state.json,
\* violations.json and contract.json from the workspace, and writes one JSON
\* response to stdout. Times are in minutes.

\* -------------------------------------------------------------- the actions
\* the commands, MCP calls and file paths the hook is asked about
ShellValues ==
  {"rm -rf /", "mkfs.ext4 disk.img", "git reset --hard", "git status --force",
   "echo --force", "git status", "pnpm test"}
McpValues == {"goal-guardian/guardian_check_step", "github/create_issue"}
ReadValues == {".env", "src/login.ts", ".cursor/goal-guardian/state.json"}

\* minimatch(value, pattern, {dot: true, nocase: true}), on the values above and
\* the patterns of the policies and permits below: the pairs that match
GlobPairs ==
  {<<"rm -rf /", "rm -rf /">>,
   <<"*mkfs.*", "mkfs.ext4 disk.img">>,
   <<"git reset --hard*", "git reset --hard">>,
   <<"*--force*", "git status --force">>,
   <<"*--force*", "echo --force">>,
   <<"git status*", "git status">>,
   <<"git status*", "git status --force">>,
   <<"echo *", "echo --force">>,
   <<"pnpm test", "pnpm test">>,
   <<"goal-guardian/*", "goal-guardian/guardian_check_step">>,
   <<"github/*", "github/create_issue">>,
   <<"**/.env", ".env">>,
   <<"src/**", "src/login.ts">>,
   <<".cursor/goal-guardian/**", ".cursor/goal-guardian/state.json">>}

minimatch(value, pattern) == <<pattern, value>> \in GlobPairs

\* globAny with the pattern lists never looked at
globNone(patterns, value) == FALSE

\* globAny
globAny(patterns, value) == \E i \in 1..Len(patterns) : minimatch(value, patterns[i])

\* ---------------------------------------------------------------- the policy
PolicyRule(pattern, severity, reason) ==
  [pattern |-> pattern, severity |-> severity, reason |-> reason]

defaultWarningConfig ==
  [maxWarningsBeforeBlock |-> 3, warningResetMinutes |-> 60, showGoalReminder |-> TRUE]

\* defaultPolicy(): of its pattern lists and rule lists, the entries that match
\* one of the values above, in the order of the source
defaultPolicy ==
  [enforceReduxControl |-> TRUE,
   enforceTaskScope |-> TRUE,
   taskScopeSensitivity |-> "balanced",
   requirePermitForShell |-> FALSE,
   requirePermitForMcp |-> FALSE,
   requirePermitForRead |-> FALSE,
   autoRevertUnauthorizedEdits |-> FALSE,
   alwaysAllow |-> [shell |-> <<"git status*">>,
                    mcp |-> <<"goal-guardian/*">>,
                    read |-> <<".cursor/goal-guardian/**">>],
   highRiskPatterns |-> [shell |-> <<"rm -rf /">>, mcp |-> <<>>, read |-> <<"**/.env">>],
   warningConfig |-> defaultWarningConfig,
   shellRules |->
     <<PolicyRule("rm -rf /", "HIGH_RISK", "Destructive filesystem command"),
       PolicyRule("*mkfs.*", "HIGH_RISK", "Filesystem format command"),
       PolicyRule("*--force*", "WARN", "Force flag bypasses safety checks"),
       PolicyRule("git reset --hard*", "WARN", "Destructive git operation"),
       PolicyRule("git status*", "ALLOWED", "Read-only git operation"),
       PolicyRule("echo *", "ALLOWED", "Print text")>>,
   mcpRules |-> <<PolicyRule("goal-guardian/*", "ALLOWED", "Goal Guardian MCP tools")>>,
   readRules |->
     <<PolicyRule("**/.env", "HIGH_RISK", "Environment secrets"),
       PolicyRule(".cursor/goal-guardian/**", "ALLOWED", "Guardian configuration")>>]

\* policy.json: every field is optional; a workspace may have no policy.json
PolicyFields ==
  {"enforceReduxControl", "enforceTaskScope", "taskScopeSensitivity",
   "requirePermitForShell", "requirePermitForMcp", "requirePermitForRead",
   "autoRevertUnauthorizedEdits", "alwaysAllow", "highRiskPatterns",
   "warningConfig", "shellRules", "mcpRules", "readRules"}
NoPolicyFile == [exists |-> FALSE, doc |-> [f \in PolicyFields |-> None]]
PolicyFile(doc) == [exists |-> TRUE, doc |-> doc]

\* a ?? b on an optional field
OrElse(opt, dflt) == IF opt = None THEN dflt ELSE opt[1]

\* loadPolicy: the fields of policy.json over those of defaultPolicy()
loadPolicy(file) ==
  IF ~file.exists THEN defaultPolicy
  ELSE LET f == file.doc
           base == defaultPolicy
           allow == OrElse(f.alwaysAllow, [shell |-> None, mcp |-> None, read |-> None])
           risk == OrElse(f.highRiskPatterns, [shell |-> None, mcp |-> None, read |-> None])
           warn == OrElse(f.warningConfig,
                          [maxWarningsBeforeBlock |-> None, warningResetMinutes |-> None,
                           showGoalReminder |-> None])
       IN [enforceReduxControl |-> OrElse(f.enforceReduxControl, base.enforceReduxControl),
           enforceTaskScope |-> OrElse(f.enforceTaskScope, base.enforceTaskScope),
           taskScopeSensitivity |->
             OrElse(f.taskScopeSensitivity, base.taskScopeSensitivity),
           requirePermitForShell |->
             OrElse(f.requirePermitForShell, base.requirePermitForShell),
           requirePermitForMcp |-> OrElse(f.requirePermitForMcp, base.requirePermitForMcp),
           requirePermitForRead |->
             OrElse(f.requirePermitForRead, base.requirePermitForRead),
           autoRevertUnauthorizedEdits |->
             OrElse(f.autoRevertUnauthorizedEdits, base.autoRevertUnauthorizedEdits),
           alwaysAllow |-> [shell |-> OrElse(allow.shell, base.alwaysAllow.shell),
                            mcp |-> OrElse(allow.mcp, base.alwaysAllow.mcp),
                            read |-> OrElse(allow.read, base.alwaysAllow.read)],
           highRiskPatterns |->
             [shell |-> OrElse(risk.shell, base.highRiskPatterns.shell),
              mcp |-> OrElse(risk.mcp, base.highRiskPatterns.mcp),
              read |-> OrElse(risk.read, base.highRiskPatterns.read)],
           warningConfig |->
             [maxWarningsBeforeBlock |->
                OrElse(warn.maxWarningsBeforeBlock,
                       defaultWarningConfig.maxWarningsBeforeBlock),
              warningResetMinutes |->
                OrElse(warn.warningResetMinutes, defaultWarningConfig.warningResetMinutes),
              showGoalReminder |->
                OrElse(warn.showGoalReminder, defaultWarningConfig.showGoalReminder)],
           shellRules |-> OrElse(f.shellRules, base.shellRules),
           mcpRules |-> OrElse(f.mcpRules, base.mcpRules),
           readRules |-> OrElse(f.readRules, base.readRules)]

\* classifySeverity with the list read from its end: the last rule that matches
classifySeverityLast(rls, value) ==
  LET hits == {i \in 1..Len(rls) : minimatch(value, rls[i].pattern)}
  IN IF hits = {} THEN [severity |-> "PERMIT_REQUIRED", rule |-> None]
     ELSE LET last_ == CHOOSE i \in hits : \A j \in hits : j <= i
          IN [severity |-> rls[last_].severity, rule |-> Some(rls[last_])]

\* classifySeverity: the first rule whose pattern matches, in list order
classifySeverity(rls, value) ==
  LET hits == {i \in 1..Len(rls) : minimatch(value, rls[i].pattern)}
  IN IF hits = {}
     THEN [severity |-> "PERMIT_REQUIRED", rule |-> None]
     ELSE LET first == CHOOSE i \in hits : \A j \in hits : i <= j
          IN [severity |-> rls[first].severity, rule |-> Some(rls[first])]

\* ----------------------------------------------------- the violation tracker
\* warningCounts maps a pattern to its count; NoCounts is the empty map
NoCounts == [p \in {} |-> 0]
MissingViolations == [exists |-> FALSE, warningCounts |-> NoCounts, lastReset |-> 0]

\* loadViolations: a missing file reads as an empty tracker reset just now
loadViolations(file, now) ==
  IF file.exists
  THEN [warningCounts |-> file.warningCounts, lastReset |-> file.lastReset]
  ELSE [warningCounts |-> NoCounts, lastReset |-> now]

saveViolations(tracker) ==
  [exists |-> TRUE, warningCounts |-> tracker.warningCounts, lastReset |-> tracker.lastReset]

\* shouldResetWarnings that never finds the reset due
shouldResetWarningsNever(tracker, resetMinutes, now) == FALSE

shouldResetWarnings(tracker, resetMinutes, now) == now - tracker.lastReset >= resetMinutes

\* getWarningCount that finds no pattern counted
getWarningCountNone(tracker, pattern) == 0

getWarningCount(tracker, pattern) ==
  IF pattern \in DOMAIN tracker.warningCounts THEN tracker.warningCounts[pattern] ELSE 0

\* incrementWarning counting a warning twice
incrementWarningTwice(tracker, pattern) ==
  [tracker EXCEPT
     !.warningCounts =
        [p \in DOMAIN @ \cup {pattern} |->
           IF p = pattern THEN getWarningCount(tracker, pattern) + 2 ELSE @[p]]]

incrementWarning(tracker, pattern) ==
  [tracker EXCEPT
     !.warningCounts =
        [p \in DOMAIN @ \cup {pattern} |->
           IF p = pattern THEN getWarningCount(tracker, pattern) + 1 ELSE @[p]]]

\* resetWarnings keeping the counts
resetWarningsKeepsCounts(tracker, now) == [tracker EXCEPT !.lastReset = now]

resetWarnings(tracker, now) == [warningCounts |-> NoCounts, lastReset |-> now]

\* ---------------------------------------------------------------- the permits
Permit(token, step_id, issued_at, expires_at, allow) ==
  [token |-> token, step_id |-> step_id, issued_at |-> issued_at,
   expires_at |-> expires_at, allow |-> allow]

Allow(shell, mcp, read, write) == [shell |-> shell, mcp |-> mcp, read |-> read, write |-> write]

\* the unexpired permits of a permits.json, in file order
ValidPermits(doc, now) == SelectSeq(doc, LAMBDA p : p.expires_at > now)

\* loadActivePermit with expires_at not looked at
loadActivePermitStale(doc, now) == IF doc = <<>> THEN None ELSE Some(doc[1])

\* loadActivePermit: of the unexpired permits the one issued last (the sort is
\* stable: of two permits issued at the same time the earlier in the file)
loadActivePermit(doc, now) ==
  LET valid == ValidPermits(doc, now)
  IN IF valid = <<>> THEN None
     ELSE LET i == CHOOSE i \in 1..Len(valid) :
                     \A j \in 1..Len(valid) :
                        \/ valid[i].issued_at > valid[j].issued_at
                        \/ valid[i].issued_at = valid[j].issued_at /\ i <= j
          IN Some(valid[i])

\* -------------------------------------------------------------- the responses
\* A message is its template and what fills it.
Message(template, args, count, max) ==
  [template |-> template, args |-> args, count |-> count, max |-> max, tail |-> ""]

\* a suggestion that names no allow field and no pattern
SuggestNothing(text, field, pattern) == [text |-> text, field |-> "", pattern |-> ""]

\* a suggested permit request: the allow field and the pattern to ask for
Suggest(text, field, pattern) == [text |-> text, field |-> field, pattern |-> pattern]

WarnContext(warningCount, maxWarnings, suggestedAction, goalContext) ==
  [warningCount |-> warningCount, maxWarnings |-> maxWarnings,
   suggestedAction |-> suggestedAction, goalContext |-> goalContext]

cursorResponseAllow(agentMessage) ==
  [continue |-> TRUE, permission |-> "allow", userMessage |-> None,
   agentMessage |-> agentMessage, warning |-> None]

\* cursorResponseWarn with nothing for the user to see
cursorResponseWarnMute(userMessage, agentMessage, context) ==
  [continue |-> TRUE, permission |-> "allow", userMessage |-> None,
   agentMessage |-> Some(agentMessage), warning |-> None]

cursorResponseWarn(userMessage, agentMessage, context) ==
  [continue |-> TRUE, permission |-> "allow", userMessage |-> Some(userMessage),
   agentMessage |-> Some(agentMessage),
   warning |-> Some([count |-> context.warningCount, max |-> context.maxWarnings,
                     suggestedAction |-> context.suggestedAction,
                     goalContext |-> context.goalContext])]

\* loadContract: null when contract.json is missing
goalContextFromContract(contract) ==
  IF contract.exists
  THEN Some([goal |-> contract.goal, relevantCriteria |-> contract.success_criteria])
  ELSE None

\* the goal a message quotes: contract?.goal ?? "No goal set"
GoalOf(contract) == IF contract.exists THEN contract.goal ELSE "No goal set"

\* blockOrWarn as the earlier policy generation had it: a deny
blockOrWarnDeny(pol, contract, tag, text, agentMessage, suggestedAction) ==
  [continue |-> FALSE, permission |-> "deny",
   userMessage |-> Some(Message("BLOCKED: {arg}", <<text>>, 0, 0)),
   agentMessage |-> Some(agentMessage), warning |-> None]

\* blockOrWarn: the leading BLOCKED: / HIGH-RISK: / ADVISORY: tag of the user
\* message is dropped and "Warning: " put in its place
blockOrWarn(pol, contract, tag, text, agentMessage, suggestedAction) ==
  cursorResponseWarn(
    IF tag \in {"", "BLOCKED", "HIGH-RISK", "ADVISORY"}
    THEN Message("Warning: {arg}", <<text>>, 0, 0)
    ELSE Message("Warning: {tag}: {arg}", <<tag, text>>, 0, 0),
    [agentMessage EXCEPT !.tail = "Action allowed (advisory-only policy)."],
    WarnContext(0, pol.warningConfig.maxWarningsBeforeBlock, suggestedAction,
                goalContextFromContract(contract)))

\* ------------------------------------------------------- the state the hook reads
\* loadReduxState: state.json, or null when it is missing
\* activeTaskStatus: the status of the task active_task names, null if there is none
activeTaskStatus(state, activeTaskId) ==
  LET hits == {i \in 1..Len(state.tasks) : state.tasks[i].id = activeTaskId}
  IN IF hits = {} THEN Null
     ELSE state.tasks[CHOOSE i \in hits : \A j \in hits : i <= j].status

\* activeTask: the title of that task, the id when there is no such task
activeTaskTitle(state, activeTaskId) ==
  LET hits == {i \in 1..Len(state.tasks) : state.tasks[i].id = activeTaskId}
  IN IF hits = {} THEN activeTaskId
     ELSE state.tasks[CHOOSE i \in hits : \A j \in hits : i <= j].title

isBootstrapReadPath(rel) == rel = ".cursor/goal-guardian/state.json"

\* ------------------------------------------------------------ scope drift
\* tokenizeScope on the texts of this model: lower case, split at blanks and
\* punctuation, tokens shorter than 3 and numbers dropped
tokenizeScope(text) ==
  CASE text = "Task 1" -> <<"task">>
    [] text = "Task 2" -> <<"task">>
    [] text = "t1" -> <<>>
    [] text = "t2" -> <<>>
    [] text = "t9" -> <<>>
    [] text = "" -> <<>>
    [] text = "Add login" -> <<"add", "login">>
    [] text = "Wire login form" -> <<"wire", "login", "form">>
    [] text = "apps/billing/package.json" -> <<"apps", "billing", "package", "json">>
    [] text = "src/forms/index.ts" -> <<"src", "forms", "index">>
    [] text = "rm -rf /" -> <<>>
    [] text = "mkfs.ext4 disk.img" -> <<"mkfs", "ext4", "disk", "img">>
    [] text = "git reset --hard" -> <<"git", "reset", "hard">>
    [] text = "git status --force" -> <<"git", "status", "force">>
    [] text = "echo --force" -> <<"echo", "force">>
    [] text = "git status" -> <<"git", "status">>
    [] text = "pnpm test" -> <<"pnpm", "test">>
    [] text = "goal-guardian/guardian_check_step" ->
         <<"goal", "guardian", "check", "step">>
    [] text = "github/create_issue" -> <<"github", "create", "issue">>
    [] text = ".env" -> <<"env">>
    [] text = "src/login.ts" -> <<"src", "login">>
    [] text = ".cursor/goal-guardian/state.json" ->
         <<"cursor", "goal", "guardian", "state", "json">>

\* of the word lists of the source, the words that are tokens of this model
scopeStopWords == {}
genericTaskTerms == {"add", "task"}
genericActionTerms == {"check", "echo", "git", "json", "package", "pnpm", "src", "test"}

RECURSIVE Distinct(_, _)
Distinct(s, seen) ==
  IF s = <<>> THEN <<>>
  ELSE IF Head(s) \in seen THEN Distinct(Tail(s), seen)
       ELSE <<Head(s)>> \o Distinct(Tail(s), seen \cup {Head(s)})

RECURSIVE Flatten(_)
Flatten(parts) == IF parts = <<>> THEN <<>> ELSE tokenizeScope(Head(parts)) \o Flatten(Tail(parts))

taskScopeTerms(parts) ==
  Distinct(SelectSeq(Flatten(parts),
                     LAMBDA t : t \notin scopeStopWords /\ t \notin genericTaskTerms), {})

actionScopeTerms(actionValue) ==
  Distinct(SelectSeq(tokenizeScope(actionValue),
                     LAMBDA t : t \notin scopeStopWords /\ t \notin genericActionTerms), {})

\* no command is a neutral one
isNeutralShellCommandNever(cmd) == FALSE

isNeutralShellCommand(cmd) ==
  cmd \in {"git status", "git status --force", "echo --force", "pnpm test"}

\* of the read paths of this model, the one whose base name is a manifest, a
\* lock file or a tool configuration
isNeutralReadPath(rel) == rel = "apps/billing/package.json"

\* a read of a pinned path; no command of this model contains a pinned path
matchesPinnedContext(state, actionType, actionValue) ==
  /\ actionType = "read"
  /\ \E i \in 1..Len(state.pinned_context) : state.pinned_context[i] = actionValue

\* the plural endings are cut from tokens longer than 4
normalizeScopeToken(token) ==
  CASE token = "status" -> "statu"
    [] token = "forms" -> "form"
    [] OTHER -> token

\* no two tokens of this model that are long enough for the prefix rules (5
\* letters after the cut, 6 before it) are a prefix of one another
hasScopeOverlap(taskTerms, actionTerms) ==
  \E i \in 1..Len(taskTerms), j \in 1..Len(actionTerms) :
     \/ taskTerms[i] = actionTerms[j]
     \/ normalizeScopeToken(taskTerms[i]) = normalizeScopeToken(actionTerms[j])

\* criterionTextForTask: only tasks named sc<n> or task<n> have one
criterionTextForTask(state, taskId) == None

\* the least number of action terms: rising from lenient to strict
minActionTermsReversed(sensitivity) ==
  IF sensitivity = "strict" THEN 3 ELSE IF sensitivity = "balanced" THEN 2 ELSE 1

\* the least number of action terms a drift needs in each mode
minActionTerms(sensitivity) ==
  IF sensitivity = "strict" THEN 1 ELSE IF sensitivity = "balanced" THEN 2 ELSE 3

\* evaluateTaskScopeDrift: null (None) or the drift found
evaluateTaskScopeDrift(pol, reduxState, actionType, actionValue) ==
  IF ~reduxState.exists THEN None
  ELSE
    LET state == reduxState.doc
        activeTaskId == IF state.active_task = Null THEN "" ELSE state.active_task
        title == activeTaskTitle(state, activeTaskId)
        taskTerms == taskScopeTerms(<<title>> \o (IF state.goal = "" THEN <<>> ELSE <<state.goal>>))
        actionTerms == actionScopeTerms(actionValue)
        sensitivity == IF pol.taskScopeSensitivity \in {"strict", "lenient", "balanced"}
                       THEN pol.taskScopeSensitivity ELSE "balanced"
        minTaskTerms == IF sensitivity = "strict" THEN 1 ELSE 2
    IN IF activeTaskId = "" THEN None
       ELSE IF actionType = "shell" /\ isNeutralShellCommand(actionValue) THEN None
       ELSE IF actionType = "read" /\ isNeutralReadPath(actionValue) THEN None
       ELSE IF actionType = "mcp" /\ actionValue = "goal-guardian/guardian_check_step"
            THEN None
       ELSE IF matchesPinnedContext(state, actionType, actionValue) THEN None
       ELSE IF title = "" THEN None
       ELSE IF Len(taskTerms) < minTaskTerms THEN None
       ELSE IF Len(actionTerms) < minActionTerms(sensitivity) THEN None
       ELSE IF hasScopeOverlap(taskTerms, actionTerms) THEN None
       ELSE Some([activeTaskId |-> activeTaskId, activeTaskTitle |-> title,
                  sensitivity |-> sensitivity,
                  confidence |-> IF Len(actionTerms) >= 4 THEN "high"
                                 ELSE IF Len(actionTerms) = 3 THEN "medium" ELSE "low",
                  taskTerms |-> taskTerms, actionTerms |-> actionTerms])

scopeWarn(pol, contract, actionType, actionValue, drift) ==
  cursorResponseWarn(
    Message("Scope warning: {kind} may be outside active task {title}.",
            <<actionType, drift.activeTaskTitle>>, 0, 0),
    Message("Active task: {id} ({title}) ... Action seen: {value}",
            <<drift.activeTaskId, drift.activeTaskTitle, actionValue>>, 0, 0),
    WarnContext(0, pol.warningConfig.maxWarningsBeforeBlock,
                Suggest("Switch state.active_task before running the action.", "", ""),
                goalContextFromContract(contract)))

\* ------------------------------------------------------------- the MCP preview
\* What guardian_preview_action answers when the hook is started with --mcp.
PreviewResult(wouldSucceed, severity, reason, warningCount, suggested) ==
  [wouldSucceed |-> wouldSucceed, severity |-> severity, reason |-> reason,
   warningCount |-> warningCount, maxWarnings |-> None,
   suggestedPermitRequest |-> suggested]

AllowFields == [shell |-> "allow_shell", mcp |-> "allow_mcp", read |-> "allow_read"]

buildRecoveryMessage(action, actionValue, contract, field, pattern) ==
  Message("{goal} To proceed: 1. guardian_check_step 2. guardian_issue_permit with {field}: [{pattern}] 3. Retry",
          <<IF contract.exists /\ contract.goal # "" THEN contract.goal ELSE "No goal is set.",
            action, field, pattern>>, 0, 0)

previewToResponse(preview, actionType, actionValue, pol, contract) ==
  LET maxWarnings == OrElse(preview.maxWarnings, pol.warningConfig.maxWarningsBeforeBlock)
      warningCount == OrElse(preview.warningCount, 0)
      suggested == preview.suggestedPermitRequest
      suggestedAction ==
        IF suggested # None
        THEN Suggest("Request a permit with {field}: [{pattern}]",
                     suggested[1].allow_field, suggested[1].allow_pattern)
        ELSE Suggest("Request a permit for {actionType}", "", "")
      recovery ==
        IF suggested # None
        THEN buildRecoveryMessage(actionType, actionValue, contract,
                                  suggested[1].allow_field, suggested[1].allow_pattern)
        ELSE Message("", <<>>, 0, 0)
      goalContext == goalContextFromContract(contract)
  IN IF preview.severity = "HIGH_RISK"
     THEN blockOrWarn(pol, contract, "", preview.reason,
                      IF suggested # None THEN recovery
                      ELSE Message("High-risk action flagged by MCP policy. {value}",
                                   <<actionValue>>, 0, 0),
                      suggestedAction)
     ELSE IF preview.severity = "WARN"
     THEN cursorResponseWarn(
            Message("{reason}", <<preview.reason>>, 0, 0),
            IF preview.wouldSucceed
            THEN Message("Allowed with warning. {count} warnings remaining before escalation reminder.",
                         <<>>, IF maxWarnings > warningCount
                               THEN maxWarnings - warningCount ELSE 0, maxWarnings)
            ELSE Message("Warning limit reached. Action allowed, but a permit is strongly recommended.",
                         <<>>, 0, 0),
            WarnContext(warningCount, maxWarnings, suggestedAction, goalContext))
     ELSE IF preview.severity = "PERMIT_REQUIRED" /\ ~preview.wouldSucceed
     THEN cursorResponseWarn(
            Message("{reason}", <<preview.reason>>, 0, 0),
            IF suggested # None THEN recovery
            ELSE Message("Permit recommended for {actionType}: {value}",
                         <<actionType, actionValue>>, 0, 0),
            WarnContext(0, maxWarnings, suggestedAction, goalContext))
     ELSE cursorResponseAllow(None)

\* ------------------------------------------------------------------- the hook
\* What one run of the hook leaves: the response on stdout, violations.json,
\* the number of records appended to audit.log, the branch of main that
\* answered, and the severity and rule of the classification (when made).
Ran(stage, response, file, audited, severity, rule) ==
  [stage |-> stage, response |-> response, violations |-> file, audited |-> audited,
   severity |-> severity, rule |-> rule]

\* the event on stdin
\* mcpPath: whether the hook was started with the path of the MCP server;
\* preview: what guardian_preview_action answers when called
HookInput(raw, event, value, preview, fails) ==
  [raw |-> raw, event |-> event, value |-> value, preview |-> preview, fails |-> fails,
   mcpPath |-> preview # None]

\* the hook knows the MCP server and the server cannot be reached, or the call
\* fails
Unreachable(input) == [input EXCEPT !.preview = None, !.mcpPath = TRUE]

\* previewViaMcp answering a failed call with a refusal of its own
previewViaMcpRefuses(reply) ==
  IF reply = None
  THEN Some(PreviewResult(FALSE, "HIGH_RISK", "MCP server unreachable", None, None))
  ELSE reply

\* previewViaMcp: the parsed answer, null when connecting or the call throws
previewViaMcp(reply) == reply

ActionTypes ==
  [beforeShellExecution |-> "shell", beforeMCPExecution |-> "mcp", beforeReadFile |-> "read"]

\* `${cmd.split(" ")[0]}*`
firstWordGlob(cmd) ==
  CASE cmd \in {"git reset --hard", "git status --force", "git status"} -> "git*"
    [] cmd = "echo --force" -> "echo*"
    [] cmd = "rm -rf /" -> "rm*"
    [] cmd = "mkfs.ext4 disk.img" -> "mkfs.ext4*"
    [] cmd = "pnpm test" -> "pnpm*"

\* lines 869-914: the Redux control checks; None when they pass
reduxControl(pol, contract, reduxState) ==
  IF ~reduxState.exists
  THEN Some(blockOrWarn(pol, contract, "ADVISORY",
                        "Redux control requires .cursor/goal-guardian/state.json",
                        Message("Initialize Goal Guardian state files, then retry.", <<>>, 0, 0),
                        Suggest("Create .cursor/goal-guardian/state.json (via extension install).",
                                "", "")))
  ELSE LET state == reduxState.doc
           activeTaskId == IF state.active_task = Null THEN "" ELSE state.active_task
           status == activeTaskStatus(state, activeTaskId)
       IN IF activeTaskId = ""
          THEN Some(blockOrWarn(pol, contract, "ADVISORY", "No active Redux task.",
                                Message("Set success criteria in contract.json and let Goal Guardian auto-start a task, then retry.",
                                        <<>>, 0, 0),
                                Suggest("Ensure state.active_task is set to a task in doing status.",
                                        "", "")))
          ELSE IF status # Null /\ status # "doing"
          THEN Some(blockOrWarn(pol, contract, "ADVISORY",
                                "Active task is not in doing state.",
                                Message("Ensure the active task is in progress before the action.",
                                        <<>>, 0, 0),
                                Suggest("Mark the active task status as doing.", "", "")))
          ELSE None

\* lines 942-1143 (shell), 1224-1417 (MCP), 1499-1692 (read): the local
\* classification of an action and the answer of its tier
classifyLocally(actionType, value, pol, permit, tracker, file, contract) ==
  LET rls == CASE actionType = "shell" -> pol.shellRules
               [] actionType = "mcp" -> pol.mcpRules
               [] actionType = "read" -> pol.readRules
      requirePermit == CASE actionType = "shell" -> pol.requirePermitForShell
                         [] actionType = "mcp" -> pol.requirePermitForMcp
                         [] actionType = "read" -> pol.requirePermitForRead
      c == classifySeverity(rls, value)
      severity == c.severity
      rule == c.rule
      field == AllowFields[actionType]
      exact == Suggest("Request a permit with {field}: [{pattern}]", field, value)
      goalContext == goalContextFromContract(contract)
      maxWarnings == pol.warningConfig.maxWarningsBeforeBlock
      recovery == buildRecoveryMessage(actionType, value, contract, field, value)
      recommend ==
        Message("Goal check: {goal} Permit recommended for: {value}",
                <<GoalOf(contract), value>>, 0, 0)
  IN IF severity = "HIGH_RISK" \/ globAny(pol.highRiskPatterns[actionType], value)
     THEN Ran("high_risk",
              blockOrWarn(pol, contract, "HIGH-RISK",
                          IF rule # None THEN rule[1].reason ELSE "High-risk pattern",
                          Message("{value} matches a high-risk advisory policy pattern.",
                                  <<value>>, 0, 0),
                          Suggest("Avoid: {value}", "", value)),
              file, 1, severity, rule)
     ELSE IF severity = "ALLOWED" \/ globAny(pol.alwaysAllow[actionType], value)
     THEN Ran("allowed", cursorResponseAllow(None), file, 0, severity, rule)
     ELSE IF severity = "WARN"
     THEN LET matchedPattern == rule[1].pattern
              currentCount == getWarningCount(tracker, matchedPattern)
              counted == incrementWarning(tracker, matchedPattern)
              newCount == currentCount + 1
          IN IF currentCount >= maxWarnings
             THEN Ran("limit",
                      cursorResponseWarn(
                        Message("Warning ({count}/{max}): {reason} - limit reached",
                                <<rule[1].reason>>, currentCount, maxWarnings),
                        Message("Action allowed, but warning limit reached. Consider requesting a permit.",
                                <<>>, 0, 0),
                        WarnContext(currentCount, maxWarnings, exact, goalContext)),
                      file, 1, severity, rule)
             ELSE Ran("warn",
                      cursorResponseWarn(
                        Message("Warning ({count}/{max}): {reason}",
                                IF actionType = "shell" /\ pol.warningConfig.showGoalReminder
                                   /\ contract.exists
                                THEN <<rule[1].reason, contract.goal>> ELSE <<rule[1].reason>>,
                                newCount, maxWarnings),
                        Message("Action allowed with warning. {count} warnings remaining.",
                                <<>>, maxWarnings - newCount, maxWarnings),
                        WarnContext(newCount, maxWarnings,
                                    IF actionType = "shell"
                                    THEN Suggest("Request a permit with {field}: [{pattern}]",
                                                 field, firstWordGlob(value))
                                    ELSE exact,
                                    goalContext)),
                      saveViolations(counted), 1, severity, rule)
     ELSE IF ~requirePermit
     THEN Ran("permit_not_required", cursorResponseAllow(None), file, 0, severity, rule)
     ELSE IF permit = None
     THEN Ran("no_permit",
              cursorResponseWarn(recommend, recovery,
                                 WarnContext(0, maxWarnings, exact, goalContext)),
              file, 1, severity, rule)
     ELSE IF ~globAny(permit[1].allow[actionType], value)
     THEN Ran("permit_mismatch",
              cursorResponseWarn(recommend,
                                 [recovery EXCEPT
                                    !.tail = "Permit exists but does not allow this action."],
                                 WarnContext(0, maxWarnings, exact, goalContext)),
              file, 1, severity, rule)
     ELSE Ran("permitted", cursorResponseAllow(None), file, 0, severity, rule)

\* main().catch: the answer when main throws
FatalResponse ==
  [continue |-> TRUE, permission |-> "allow", userMessage |-> None,
   agentMessage |-> None, warning |-> None]

\* main: one run of the hook at time now
\* main().catch with nothing written
catchFatalSilent(out) == out

\* main().catch: one more response on standard output
catchFatal(out) == Append(out, FatalResponse)

\* standard output at the end of a run: a throw leaves main before the write
\* of its branch (every write is followed by return), the other runs write
\* the response of their branch and return
stdoutOf(stage, response) ==
  IF stage = "fatal" THEN catchFatal(<<>>) ELSE <<response>>

\* main with the payload parsed after the audit record and the reset of the
\* tracker instead of before them
mainParsesLate(input, pol, permitsDoc, reduxState, violationsFile, contract, now) ==
  LET loaded == loadViolations(violationsFile, now)
      due == shouldResetWarnings(loaded, pol.warningConfig.warningResetMinutes, now)
      file == IF due THEN saveViolations(resetWarnings(loaded, now)) ELSE violationsFile
  IN IF input.raw # "json"
     THEN Ran("invalid_json",
              cursorResponseAllow(Some(Message("Goal-Guardian hook: invalid JSON payload; allowing.",
                                               <<>>, 0, 0))),
              file, 1, "", None)
     ELSE Ran("other_event", cursorResponseAllow(None), file, 1, "", None)

main(input, pol, permitsDoc, reduxState, violationsFile, contract, now) ==
  IF input.raw # "json"
  THEN Ran("invalid_json",
           cursorResponseAllow(Some(Message("Goal-Guardian hook: invalid JSON payload; allowing.",
                                            <<>>, 0, 0))),
           violationsFile, 0, "", None)
  ELSE IF input.fails
  THEN Ran("fatal", FatalResponse, violationsFile, 0, "", None)
  ELSE
    LET permit == loadActivePermit(permitsDoc, now)
        loaded == loadViolations(violationsFile, now)
        due == shouldResetWarnings(loaded, pol.warningConfig.warningResetMinutes, now)
        tracker == IF due THEN resetWarnings(loaded, now) ELSE loaded
        file == IF due THEN saveViolations(tracker) ELSE violationsFile
        event == input.event
        value == input.value
    IN IF event \in DOMAIN ActionTypes
       THEN LET actionType == ActionTypes[event]
                exempt == actionType = "read" /\ isBootstrapReadPath(value)
                control == IF pol.enforceReduxControl /\ ~exempt
                           THEN reduxControl(pol, contract, reduxState) ELSE None
                drift == IF pol.enforceTaskScope /\ ~exempt
                         THEN evaluateTaskScopeDrift(pol, reduxState, actionType, value)
                         ELSE None
                local == classifyLocally(actionType, value, pol, permit, tracker, file,
                                         contract)
            IN IF value = "" /\ actionType # "mcp"
               THEN Ran("empty", cursorResponseAllow(None), file, 1, "", None)
               ELSE IF control # None
               THEN Ran("redux_control", control[1], file, 1, "", None)
               ELSE IF drift # None
               THEN Ran("scope_drift",
                        scopeWarn(pol, contract, actionType, value, drift[1]), file, 2,
                        "", None)
               ELSE IF input.mcpPath /\ previewViaMcp(input.preview) # None
               THEN Ran("preview",
                        previewToResponse(previewViaMcp(input.preview)[1], actionType, value,
                                          pol, contract),
                        file, 1, "", None)
               ELSE [local EXCEPT !.audited = @ + 1]
       ELSE IF event = "afterFileEdit"
       THEN LET writeAllowed == permit # None /\ globAny(permit[1].allow.write, value)
                revert == /\ pol.autoRevertUnauthorizedEdits
                          /\ (globAny(pol.highRiskPatterns.read, value) \/ ~writeAllowed)
            IN Ran("after_edit", cursorResponseAllow(None), file,
                   IF value = "" THEN 1 ELSE IF revert THEN 3 ELSE 2, "", None)
       ELSE Ran("other_event", cursorResponseAllow(None), file, 1, "", None)

\* ====================================================== the permit authority
\* The MCP server (cursor-goal-guardian-mcp, index.ts): guardian_check_step
\* records a check of a step against the contract, guardian_issue_permit
\* issues a permit for an approved step, guardian_commit_result records the
\* result and revokes the permits of the step. Scores are in tenths.
ApprovalThreshold == 6

\* `SC${i + 1}`
CriterionIds == <<"SC1", "SC2", "SC3">>
criteriaIds(contract) == {CriterionIds[i] : i \in 1..Len(contract.success_criteria)}

validateMapsTo(contract, mapsTo) ==
  \A i \in 1..Len(mapsTo) : mapsTo[i] \in criteriaIds(contract)

\* the steps proposed, and whether the text holds one of the phrases
\* "also", "by the way", "extra", "bonus", "while we're at it"
Steps == {"Wire the auth call", "Also tidy the router"}
looksLikeScopeExpansion(step) == step = "Also tidy the router"

\* goal.trim(): a goal of blanks only is no goal
trim(text) == IF text \in {"", "   "} THEN "" ELSE text

\* stepRubric with the scope-expansion phrases not looked for
stepRubricAnyStep(contract, step, mapsTo) ==
  IF ~validateMapsTo(contract, mapsTo)
  THEN [on_goal |-> FALSE, score |-> 2,
        reason |-> "maps_to contains unknown success criteria IDs."]
  ELSE [on_goal |-> TRUE, score |-> 10, reason |-> "Step maps to valid success criteria IDs."]

stepRubric(contract, step, mapsTo) ==
  IF trim(contract.goal) = ""
  THEN [on_goal |-> FALSE, score |-> 0, reason |-> "No goal is set."]
  ELSE IF contract.success_criteria = <<>>
  THEN [on_goal |-> FALSE, score |-> 0, reason |-> "No success criteria are set."]
  ELSE IF ~validateMapsTo(contract, mapsTo)
  THEN [on_goal |-> FALSE, score |-> 2,
        reason |-> "maps_to contains unknown success criteria IDs."]
  ELSE IF looksLikeScopeExpansion(step)
  THEN [on_goal |-> FALSE, score |-> 4, reason |-> "Step looks like scope expansion."]
  ELSE [on_goal |-> TRUE, score |-> 10, reason |-> "Step maps to valid success criteria IDs."]

permitDocPruneExpired(doc, now) == SelectSeq(doc, LAMBDA p : p.expires_at > now)

\* what a tool call leaves: its files, the ids drawn, and what it answered
Answered(ok, text, subject, checksDoc, permitsDoc, progressDoc, ids) ==
  [ok |-> ok, text |-> text, subject |-> subject, checks |-> checksDoc,
   permits |-> permitsDoc, progress |-> progressDoc, ids |-> ids]

\* guardian_check_step
checkStep(contract, checksDoc, permitsDoc, progressDoc, step, mapsTo, now, ids) ==
  LET verdict == stepRubric(contract, step, mapsTo)
      record == [step_id |-> newId(ids), step |-> step, maps_to |-> mapsTo,
                 on_goal |-> verdict.on_goal, score |-> verdict.score,
                 reason |-> verdict.reason, ts |-> now]
  IN Answered(verdict.on_goal, verdict.reason, record.step_id,
              <<record>> \o checksDoc, permitsDoc, progressDoc, ids + 1)

\* checksDoc.checks.find((c) => c.step_id === step_id)
FindCheck(checksDoc, step_id) ==
  LET hits == {i \in 1..Len(checksDoc) : checksDoc[i].step_id = step_id}
  IN IF hits = {} THEN None ELSE Some(checksDoc[CHOOSE i \in hits : \A j \in hits : i <= j])

\* guardian_issue_permit with the approval of the step not looked at
issuePermitUnchecked(checksDoc, permitsDoc, progressDoc, step_id, ttl, allow, now, ids) ==
  LET permit == Permit(newId(ids), step_id, now, now + ttl, allow)
  IN Answered(TRUE, "permit", permit.token, checksDoc,
              <<permit>> \o permitDocPruneExpired(permitsDoc, now), progressDoc, ids + 1)

\* guardian_issue_permit
issuePermit(checksDoc, permitsDoc, progressDoc, step_id, ttl, allow, now, ids) ==
  LET check == FindCheck(checksDoc, step_id)
      permit == Permit(newId(ids), step_id, now, now + ttl, allow)
  IN IF check = None
     THEN Answered(FALSE, "Unknown step_id", step_id, checksDoc, permitsDoc, progressDoc, ids)
     ELSE IF ~check[1].on_goal \/ check[1].score < ApprovalThreshold
     THEN Answered(FALSE, "Step is not approved", step_id, checksDoc, permitsDoc,
                   progressDoc, ids)
     ELSE Answered(TRUE, "permit", permit.token, checksDoc,
                   <<permit>> \o permitDocPruneExpired(permitsDoc, now), progressDoc,
                   ids + 1)

\* guardian_commit_result revoking every permit, whatever its step
commitResultRevokeAll(checksDoc, permitsDoc, progressDoc, step_id, now, ids) ==
  Answered(TRUE, "Progress recorded", step_id, checksDoc, <<>>,
           <<[step_id |-> step_id, ts |-> now]>> \o progressDoc, ids)

\* guardian_commit_result
commitResult(checksDoc, permitsDoc, progressDoc, step_id, now, ids) ==
  Answered(TRUE, "Progress recorded", step_id, checksDoc,
           SelectSeq(permitsDoc, LAMBDA p : p.step_id # step_id),
           <<[step_id |-> step_id, ts |-> now]>> \o progressDoc, ids)

\* guardian_preview_action of the bundled server. Its own defaultPolicy and
\* loadPolicy (of the glob lists, the patterns that match one of the values):
\* permits are required for shell and MCP unless policy.json says otherwise.
previewDefaultPolicy ==
  [requirePermitForShell |-> TRUE,
   requirePermitForMcp |-> TRUE,
   requirePermitForRead |-> FALSE,
   alwaysAllow |-> [shell |-> <<"git status*">>, mcp |-> <<"goal-guardian/*">>,
                    read |-> <<".cursor/goal-guardian/**">>],
   alwaysDeny |-> [shell |-> <<"rm -rf /">>, mcp |-> <<>>, read |-> <<"**/.env">>],
   warningConfig |-> defaultWarningConfig,
   shellRules |->
     <<PolicyRule("rm -rf /", "HARD_BLOCK", "Catastrophic filesystem deletion"),
       PolicyRule("*--force*", "WARN", "Force flag bypasses safety checks"),
       PolicyRule("git reset --hard*", "WARN", "Destructive git operation"),
       PolicyRule("git status*", "ALLOWED", "Read-only git operation")>>,
   mcpRules |-> <<PolicyRule("goal-guardian/*", "ALLOWED", "Goal Guardian MCP tools")>>,
   readRules |->
     <<PolicyRule("**/.env", "HARD_BLOCK", "Environment secrets"),
       PolicyRule(".cursor/goal-guardian/**", "ALLOWED", "Guardian configuration")>>]

previewLoadPolicy(file) ==
  IF ~file.exists THEN previewDefaultPolicy
  ELSE LET f == file.doc
           base == previewDefaultPolicy
           allow == OrElse(f.alwaysAllow, [shell |-> None, mcp |-> None, read |-> None])
           warn == OrElse(f.warningConfig,
                          [maxWarningsBeforeBlock |-> None, warningResetMinutes |-> None,
                           showGoalReminder |-> None])
       IN [requirePermitForShell |->
             OrElse(f.requirePermitForShell, base.requirePermitForShell),
           requirePermitForMcp |-> OrElse(f.requirePermitForMcp, base.requirePermitForMcp),
           requirePermitForRead |->
             OrElse(f.requirePermitForRead, base.requirePermitForRead),
           alwaysAllow |-> [shell |-> OrElse(allow.shell, base.alwaysAllow.shell),
                            mcp |-> OrElse(allow.mcp, base.alwaysAllow.mcp),
                            read |-> OrElse(allow.read, base.alwaysAllow.read)],
           alwaysDeny |-> base.alwaysDeny,
           warningConfig |->
             [maxWarningsBeforeBlock |->
                OrElse(warn.maxWarningsBeforeBlock, base.warningConfig.maxWarningsBeforeBlock),
              warningResetMinutes |->
                OrElse(warn.warningResetMinutes, base.warningConfig.warningResetMinutes),
              showGoalReminder |->
                OrElse(warn.showGoalReminder, base.warningConfig.showGoalReminder)],
           shellRules |-> OrElse(f.shellRules, base.shellRules),
           mcpRules |-> OrElse(f.mcpRules, base.mcpRules),
           readRules |-> OrElse(f.readRules, base.readRules)]

Preview(wouldSucceed, severity, reason) ==
  [wouldSucceed |-> wouldSucceed, severity |-> severity, reason |-> reason]

\* the handler: the first permit of the pruned permits.json is the one consulted
previewAction(pol, permitsDoc, violationsFile, action_type, action_value, now) ==
  LET pruned == permitDocPruneExpired(permitsDoc, now)
      permit == IF pruned = <<>> THEN None ELSE Some(pruned[1])
      tracker == loadViolations(violationsFile, now)
      kind == IF action_type = "write" THEN "read" ELSE action_type
      rls == CASE kind = "shell" -> pol.shellRules
               [] kind = "mcp" -> pol.mcpRules
               [] OTHER -> pol.readRules
      required == CASE kind = "shell" -> pol.requirePermitForShell
                    [] kind = "mcp" -> pol.requirePermitForMcp
                    [] OTHER -> pol.requirePermitForRead
      c == classifySeverity(rls, action_value)
      because(dflt) == IF c.rule = None THEN dflt ELSE c.rule[1].reason
      pattern == IF c.rule = None THEN action_value ELSE c.rule[1].pattern
      count == getWarningCount(tracker, pattern)
  IN IF c.severity = "HARD_BLOCK" \/ globAny(pol.alwaysDeny[kind], action_value)
     THEN Preview(FALSE, "HARD_BLOCK", because("Blocked by policy"))
     ELSE IF c.severity = "ALLOWED" \/ globAny(pol.alwaysAllow[kind], action_value)
     THEN Preview(TRUE, "ALLOWED", because("Always allowed"))
     ELSE IF kind = "shell" /\ c.severity = "WARN"
     THEN IF count >= pol.warningConfig.maxWarningsBeforeBlock
          THEN Preview(FALSE, "WARN", "Warning limit exceeded")
          ELSE Preview(TRUE, "WARN", "Would issue warning")
     ELSE IF ~required
     THEN Preview(TRUE, "PERMIT_REQUIRED", "Permit not required")
     ELSE IF permit # None /\ globAny(permit[1].allow[action_type], action_value)
     THEN Preview(TRUE, "PERMIT_REQUIRED", "Current permit allows this action")
     ELSE Preview(FALSE, "PERMIT_REQUIRED", "No valid permit for this action")

\* ------------------------------------------------ cleanup of the legacy wiring
\* .cursor/hooks.json and .cursor/mcp.json as cleanupLegacyIntegration finds
\* them. A file is missing, holds text that is no JSON, or holds a document:
\*   hooks.json  version (optional), hooks (optional): the hook names in the
\*               order of the file, each with its handlers; handlers are an
\*               array of commands (NoCommand: a handler without one), or
\*               some other JSON value (NotArray)
\*   mcp.json    mcpServers (optional): the server names in the order of the
\*               file, each with its entry (Null: the entry is null); other
\*               top-level keys
NoDoc == [none |-> TRUE]
MissingFile == [exists |-> FALSE, parses |-> FALSE, doc |-> NoDoc]
BrokenFile == [exists |-> TRUE, parses |-> FALSE, doc |-> NoDoc]
JsonFile(doc) == [exists |-> TRUE, parses |-> TRUE, doc |-> doc]

NoCommand == "<no command>"
Handlers(commands) == [array |-> TRUE, commands |-> commands]
NotArray == [array |-> FALSE, commands |-> <<>>]
HookCommands ==
  {"node /x/goal-guardian-hook.js --mcp /x/goal-guardian-mcp.js",
   "cursor-goal-guardian-hook", "node /x/custom-hook.js", "echo done", NoCommand}

\* command.includes("goal-guardian-hook") || command.includes("cursor-goal-guardian-hook")
isGoalGuardianHookCommand(command) ==
  command \in {"node /x/goal-guardian-hook.js --mcp /x/goal-guardian-mcp.js",
               "cursor-goal-guardian-hook"}

HookEntry(name, handlers) == [name |-> name, handlers |-> handlers]
HooksDoc(version, hooks) == [version |-> version, hooks |-> hooks]
McpEntry(name, entry) == [name |-> name, entry |-> entry]
McpDoc(mcpServers, others) == [mcpServers |-> mcpServers, others |-> others]

\* readJson: the fallback value for a file that cannot be read or parsed
readJsonOr(file, fallbackValue) == IF file.parses THEN file.doc ELSE fallbackValue

\* the handlers left after the filter, for a handler array
filterHandlers(handlers) ==
  SelectSeq(handlers.commands,
            LAMBDA h : ~isGoalGuardianHookCommand(IF h = NoCommand THEN "" ELSE h))

\* whether the filter took a handler away: every array counts as changed
handlersChangedAlways(handlers) == TRUE

\* whether the filter took a handler away
handlersChanged(handlers) == Len(filterHandlers(handlers)) # Len(handlers.commands)

\* the loop over Object.entries(hooks): arrays are filtered, emptied ones
\* deleted, other values left alone
RECURSIVE filterHooks(_)
filterHooks(hooks) ==
  IF hooks = <<>> THEN <<>>
  ELSE LET e == Head(hooks)
           rest == filterHooks(Tail(hooks))
       IN IF ~e.handlers.array THEN <<e>> \o rest
          ELSE IF filterHandlers(e.handlers) = <<>> THEN rest
          ELSE <<HookEntry(e.name, Handlers(filterHandlers(e.handlers)))>> \o rest

\* backupIfExists: a copy of the file named after the time
backupIfExists(backups, name, file, now) ==
  IF file.exists THEN backups \cup {[of |-> name, at |-> now, file |-> file]} ELSE backups

\* cleanupLegacyIntegration: the directory after the run, the CleanupResult and
\* the files the run wrote
cleanupLegacyIntegration(dir, now) ==
  LET hooksDoc == readJsonOr(dir.hooks, HooksDoc(Some(1), Some(<<>>)))
      hooks == IF hooksDoc.hooks = None THEN <<>> ELSE hooksDoc.hooks[1]
      changed == /\ dir.hooks.exists
                 /\ \E i \in 1..Len(hooks) :
                      hooks[i].handlers.array /\ handlersChanged(hooks[i].handlers)
      mcpDoc == readJsonOr(dir.mcp, McpDoc(Some(<<>>), <<>>))
      servers == IF mcpDoc.mcpServers = None THEN <<>> ELSE mcpDoc.mcpServers[1]
      listed == /\ dir.mcp.exists
                /\ \E i \in 1..Len(servers) :
                     servers[i].name = "goal-guardian" /\ servers[i].entry # Null
  IN [hooks |-> IF changed
                THEN JsonFile(HooksDoc(Some(OrElse(hooksDoc.version, 1)),
                                       Some(filterHooks(hooks))))
                ELSE dir.hooks,
      mcp |-> IF listed
              THEN JsonFile(McpDoc(Some(SelectSeq(servers,
                                                  LAMBDA s : s.name # "goal-guardian")),
                                   mcpDoc.others))
              ELSE dir.mcp,
      backups |->
        LET one == IF changed THEN backupIfExists(dir.backups, "hooks.json", dir.hooks, now)
                   ELSE dir.backups
        IN IF listed THEN backupIfExists(one, "mcp.json", dir.mcp, now) ELSE one,
      result |-> Some([hooksCleaned |-> changed, mcpCleaned |-> listed]),
      wrote |-> (IF changed THEN {"hooks.json"} ELSE {})
                  \cup (IF listed THEN {"mcp.json"} ELSE {})]

\* the hook processes that may run at once
HookProcs == {1, 2}

\* a hook process that is not running
NoRun == [pc |-> "idle", input |-> [none |-> TRUE], file |-> [none |-> TRUE], started |-> 0]

\* no process running, no run answered
NoGateRuns == [procs |-> [h \in HookProcs |-> NoRun], warned |-> <<>>]

\* the directory before any run
CursorDir(hooksFile, mcpFile) ==
  [hooks |-> hooksFile, mcp |-> mcpFile, backups |-> {}, result |-> None, wrote |-> {}]
NoCursorFiles == CursorDir(MissingFile, MissingFile)

\* before the hook ran
NoInput ==
  [raw |-> "", event |-> "", value |-> "", preview |-> None, fails |-> FALSE,
   mcpPath |-> FALSE]
NoHook ==
  [input |-> NoInput, stage |-> "none", response |-> FatalResponse, audited |-> 0,
   severity |-> "", rule |-> None, stdout |-> <<>>, elapsed |-> 0]

\* The files that are rewritten as a whole, and how: writeJsonAtomic writes a
\* temporary file next to the target and renames it over the target;
\* saveViolations writes into the target itself.
AtomicFiles == {"state.json", "snapshot.json", "permits.json", "checks.json"}
InPlaceFiles == {"violations.json"}
Files == AtomicFiles \cup InPlaceFiles
Quiet == [f \in Files |-> [torn |-> FALSE, tmp |-> FALSE]]

\* before the hook checked the scope of an action
NoScopeRun == [actionType |-> "", actionValue |-> "", result |-> None, response |-> None]

\* ---------------------------------------------------------------- the machine
VARIABLES
  rules,      \* rules.json as loadRules reads it
  reducerJs,  \* reducer.js, one of ReducerFiles
  store,      \* state.json, actions.jsonl, snapshot.json, contract.json
  clock,      \* the time nowIso() returns
  idSeq,      \* how many ids newId has handed out
  inflight,   \* per writer: a dispatchAction call between its load and its writes
  last,       \* the last operation: its kind, the action type, how it ended
  written,    \* state.json as the engine last wrote it (history)
  tampers,    \* how many edits were made from outside the engine (history)
  policy,     \* the policy loadPolicy gives the hook
  violations, \* .ai/goal-guardian/violations.json
  permits,    \* .ai/goal-guardian/permits.json, newest first
  checks,     \* .ai/goal-guardian/checks.json, newest first
  progress,   \* .cursor/goal-guardian/progress.json, newest first
  hook,       \* the last run of the hook: its input and what it wrote to stdout
  disk,      \* per file: a write into it is under way, a temporary file stands by
  scopeRun,  \* the last scope check of the hook: the action and what came of it
  cursorDir, \* .cursor/hooks.json and .cursor/mcp.json, their backups, the last cleanup
  gateRuns   \* per hook process: a run between its load of violations.json and
             \* its answer; the runs that answered with a counted warning (history)

vars ==
  <<rules, reducerJs, store, clock, idSeq, inflight, last, written, tampers,
    policy, violations, permits, checks, progress, hook, disk, scopeRun, cursorDir, gateRuns>>

\* the files of the state store, and the files of the gate and the permit authority
storeVars == <<rules, reducerJs, store, idSeq, inflight, last, written, tampers>>
gateVars == <<policy, violations, permits, checks, progress, hook, disk, scopeRun, cursorDir, gateRuns>>

Writers == {1, 2}

\* ------------------------------------------------------------------- inputs
TaskIds == {"t1", "t2"}
BothTasks ==
  <<[id |-> Some("t1"), title |-> "Task 1"], [id |-> Some("t2"), title |-> "Task 2"]>>
TestContract ==
  [exists |-> TRUE, goal |-> "Add login",
   success_criteria |-> <<"form renders", "auth call wired">>,
   constraints |-> <<"No scope creep">>]

\* contract.json with a goal of blanks, and with no success criteria
BlankGoalContract == [TestContract EXCEPT !.goal = "   "]
NoCriteriaContract == [TestContract EXCEPT !.success_criteria = <<>>]

Partial(actor, type, payload) == [actor |-> actor, type |-> type, payload |-> payload]

\* the decision and question ids a caller can quote after reading state.json
DecisionRefs(doc) == {None} \cup {Some(doc.decisions[i].id) : i \in 1..Len(doc.decisions)}
QuestionRefs(doc) ==
  IF doc.open_questions = <<>> THEN {"q_0"}
  ELSE {doc.open_questions[i].id : i \in 1..Len(doc.open_questions)}

\* the dispatches tried against a workspace whose state.json holds doc
Partials(doc) ==
  {Partial("agent", "SET_GOAL",
           [goal |-> "Ship login", definition_of_done |-> Some(<<"done">>),
            constraints |-> None])}
  \cup {Partial("agent", "ADD_TASKS", [tasks |-> BothTasks])}
  \cup {Partial("agent", "START_TASK", [taskId |-> t, decision_id |-> d]) :
          t \in TaskIds, d \in DecisionRefs(doc)}
  \cup {Partial("human", "COMPLETE_TASK", [taskId |-> t, allowSkip |-> b]) :
          t \in TaskIds, b \in BOOLEAN}
  \cup {Partial("agent", "OPEN_QUESTION", [text |-> "Is strict mode on?"])}
  \cup {Partial("agent", "CLOSE_QUESTION", [id |-> q]) : q \in QuestionRefs(doc)}
  \cup {Partial("agent", "ADD_DECISION",
                [text |-> "Switch task", rationale |-> "Higher priority"])}
  \cup {Partial("agent", "PIN_CONTEXT", [path |-> "src/login.ts"])}
  \cup {Partial("agent", "UNPIN_CONTEXT", [path |-> "src/login.ts"])}
  \cup {Partial("agent", "ARCHIVE_TASK", [taskId |-> "t1"])}
  \cup {Partial("robot", "OPEN_QUESTION", [text |-> "Who am I?"])}

NoPartial == Partial("", "", [none |-> TRUE])
Idle == [pc |-> "idle", current |-> defaultState(0), partial |-> NoPartial]

\* rules.json: the default rules with a snapshot every third action, and the
\* rules that hand the transition to reducer.js
snapRules == [defaultRules EXCEPT !.snapshotInterval = 3]
jsRules == [snapRules EXCEPT !.preferredReducer = "js"]

\* A fresh workspace: the contract may exist, nothing else does.
InitWith(rulesFiles, reducerFiles, contracts) ==
  /\ rules \in rulesFiles
  /\ reducerJs \in reducerFiles
  /\ \E c \in contracts :
       store = [state |-> MissingState, actions |-> MissingActions,
                snapshot |-> MissingSnapshot, contract |-> c]
  /\ clock = 0
  /\ idSeq = 0
  /\ inflight = [w \in Writers |-> Idle]
  /\ last = [op |-> "init", type |-> "", ok |-> TRUE, error |-> ""]
  /\ written = MissingState
  /\ tampers = 0
  /\ policy = loadPolicy(NoPolicyFile)
  /\ violations = MissingViolations
  /\ permits = <<>>
  /\ checks = <<>>
  /\ progress = <<>>
  /\ hook = NoHook
  /\ disk = Quiet
  /\ scopeRun = NoScopeRun
  /\ cursorDir = NoCursorFiles
  /\ gateRuns = NoGateRuns

\* ------------------------------------------------------------------ actions
\* One call of dispatchAction, start to end; the log holds at most max actions.
Dispatch(p, max) ==
  /\ Len(store.actions.log) < max
  /\ \E r \in {dispatchAction(store, p, rules, reducerJs, clock, idSeq)} :
        /\ r.ids <= MaxIds
        /\ store' = r.store
        /\ idSeq' = r.ids
        /\ last' = [op |-> "dispatch", type |-> p.type, ok |-> r.ok, error |-> r.error]
        /\ written' = IF r.ok \/ ~store.state.exists THEN r.store.state ELSE written
  /\ UNCHANGED <<rules, reducerJs, clock, inflight, tampers>>
  /\ UNCHANGED gateVars

\* One call of rebuildState, start to end.
Rebuild ==
  /\ \E r \in {rebuildState(store, rules, reducerJs, clock, idSeq)} :
        /\ r.ids <= MaxIds
        /\ store' = r.store
        /\ idSeq' = r.ids
        /\ last' = [op |-> "rebuild", type |-> "", ok |-> r.ok, error |-> r.error]
        /\ written' = IF r.ok \/ ~store.state.exists THEN r.store.state ELSE written
  /\ UNCHANGED <<rules, reducerJs, clock, inflight, tampers>>
  /\ UNCHANGED gateVars

\* An edit of state.json made outside the engine.
TamperKinds == {"goal", "actionCount", "hash", "blank_hash", "unlink"}
tamperedState(file, kind) ==
  CASE kind = "goal" -> [file EXCEPT !.doc.goal = "Manual edit"]
    [] kind = "actionCount" -> [file EXCEPT !.doc.meta.actionCount = @ + 1]
    [] kind = "hash" ->
         [file EXCEPT !.doc.meta.hash = computeHash([file.doc EXCEPT !.goal = "forged"])]
    [] kind = "blank_hash" -> [file EXCEPT !.doc.meta.hash = EmptyHash]
    [] kind = "unlink" -> MissingState

Tamper(kind) ==
  /\ tampers < MaxTampers
  /\ store.state.exists
  /\ store' = [store EXCEPT !.state = tamperedState(@, kind)]
  /\ tampers' = tampers + 1
  /\ last' = [op |-> "tamper", type |-> kind, ok |-> TRUE, error |-> ""]
  /\ UNCHANGED <<rules, reducerJs, clock, idSeq, inflight, written>>
  /\ UNCHANGED gateVars

\* Time passes.
Tick ==
  /\ clock < MaxClock
  /\ clock' = clock + 1
  /\ UNCHANGED <<rules, reducerJs, store, idSeq, inflight, last, written, tampers>>
  /\ UNCHANGED gateVars

\* Two dispatchAction calls in flight. A call is cut where it can be overtaken:
\* after loadState and the strict-mode check (lines 495-505), and before the
\* rest (lines 507-531), which is taken as one step.
Loaded == {w \in Writers : inflight[w].pc = "loaded"}

Load(w, p) ==
  /\ inflight[w].pc = "idle"
  /\ Len(store.actions.log) + Cardinality(Loaded) < MaxConcActions
  /\ LET ens == ensureStateStoreFiles(store, clock)
         current == ens.state.doc
     IN /\ store' = ens
        /\ written' = IF store.state.exists THEN written ELSE ens.state
        /\ IF HashMismatch(rules, current)
           THEN /\ last' = [op |-> "dispatch", type |-> p.type, ok |-> FALSE,
                            error |-> "State file was edited manually"]
                /\ UNCHANGED inflight
           ELSE /\ inflight' = [inflight EXCEPT
                                  ![w] = [pc |-> "loaded", current |-> current, partial |-> p]]
                /\ UNCHANGED last
  /\ UNCHANGED <<rules, reducerJs, clock, idSeq, tampers>>
  /\ UNCHANGED gateVars

Commit(w) ==
  /\ inflight[w].pc = "loaded"
  /\ LET r == dispatchCommit(store, inflight[w].current, inflight[w].partial,
                             rules, reducerJs, clock, idSeq)
     IN /\ r.ids <= MaxIds
        /\ store' = r.store
        /\ idSeq' = r.ids
        /\ last' = [op |-> "dispatch", type |-> inflight[w].partial.type,
                    ok |-> r.ok, error |-> r.error]
        /\ written' = IF r.ok THEN r.store.state ELSE written
  /\ inflight' = [inflight EXCEPT ![w] = Idle]
  /\ UNCHANGED <<rules, reducerJs, clock, tampers>>
  /\ UNCHANGED gateVars

\* state.json as the next dispatchAction call loads it
CurrentDoc == ensureStateStoreFiles(store, clock).state.doc

\* ------------------------------------------------- the gate and the authority
\* policy.json as a project may hold it
\* permits recommended for every kind of action, no Redux control, a reset
\* window of one minute
StrictFile ==
  PolicyFile([NoPolicyFile.doc EXCEPT
                !["enforceReduxControl"] = Some(FALSE),
                !["enforceTaskScope"] = Some(FALSE),
                !["requirePermitForShell"] = Some(TRUE),
                !["requirePermitForMcp"] = Some(TRUE),
                !["requirePermitForRead"] = Some(TRUE),
                !["warningConfig"] =
                   Some([maxWarningsBeforeBlock |-> None, warningResetMinutes |-> Some(1),
                         showGoalReminder |-> None])])

\* the default policy of the earlier generation written out: HARD_BLOCK rules
\* (its alwaysDeny lists are fields the hook never reads)
LegacyFile ==
  PolicyFile([NoPolicyFile.doc EXCEPT
                !["requirePermitForShell"] = Some(TRUE),
                !["requirePermitForMcp"] = Some(TRUE),
                !["requirePermitForRead"] = Some(FALSE),
                !["autoRevertUnauthorizedEdits"] = Some(FALSE),
                !["alwaysAllow"] =
                   Some([shell |-> Some(<<"git status*">>),
                         mcp |-> Some(<<"goal-guardian/*">>),
                         read |-> Some(<<".cursor/goal-guardian/**">>)]),
                !["warningConfig"] =
                   Some([maxWarningsBeforeBlock |-> Some(3), warningResetMinutes |-> Some(60),
                         showGoalReminder |-> Some(TRUE)]),
                !["shellRules"] =
                   Some(<<PolicyRule("rm -rf /", "HARD_BLOCK", "Catastrophic filesystem deletion"),
                          PolicyRule("*mkfs.*", "HARD_BLOCK", "Filesystem format command"),
                          PolicyRule("*--force*", "WARN", "Force flag bypasses safety checks"),
                          PolicyRule("git reset --hard*", "WARN", "Destructive git operation"),
                          PolicyRule("git status*", "ALLOWED", "Read-only git operation"),
                          PolicyRule("echo *", "ALLOWED", "Print text")>>),
                !["mcpRules"] =
                   Some(<<PolicyRule("goal-guardian/*", "ALLOWED", "Goal Guardian MCP tools")>>),
                !["readRules"] =
                   Some(<<PolicyRule("**/.env", "HARD_BLOCK", "Environment secrets"),
                          PolicyRule(".cursor/goal-guardian/**", "ALLOWED",
                                     "Guardian configuration")>>)])

\* rules in an order of the project's own, an ALLOWED rule ahead of a WARN rule
\* that matches the same command, and a high-risk glob over allowed commands
OrderFile ==
  PolicyFile([NoPolicyFile.doc EXCEPT
                !["enforceReduxControl"] = Some(FALSE),
                !["enforceTaskScope"] = Some(FALSE),
                !["highRiskPatterns"] =
                   Some([shell |-> Some(<<"git status*">>), mcp |-> None, read |-> None]),
                !["warningConfig"] =
                   Some([maxWarningsBeforeBlock |-> None, warningResetMinutes |-> Some(1),
                         showGoalReminder |-> None]),
                !["shellRules"] =
                   Some(<<PolicyRule("echo *", "ALLOWED", "Print text"),
                          PolicyRule("*--force*", "WARN", "Force flag bypasses safety checks"),
                          PolicyRule("git reset --hard*", "WARN",
                                     "Destructive git operation")>>)])

\* the strictest scope check
ScopeFile ==
  PolicyFile([NoPolicyFile.doc EXCEPT !["taskScopeSensitivity"] = Some("strict")])

\* the state store of a workspace: before the first dispatch, after the files
\* were created, and with task t1 started
FreshStore(contract) ==
  [state |-> MissingState, actions |-> MissingActions, snapshot |-> MissingSnapshot,
   contract |-> contract]
SeededStore == ensureStateStoreFiles(FreshStore(TestContract), 0)
StartedStore ==
  LET added == dispatchAction(FreshStore(TestContract),
                              Partial("agent", "ADD_TASKS", [tasks |-> BothTasks]),
                              snapRules, "template", 0, 0)
  IN dispatchAction(added.store,
                    Partial("agent", "START_TASK", [taskId |-> "t1", decision_id |-> None]),
                    snapRules, "template", 0, added.ids).store

\* state.json edited outside the engine: active_task names a task that was
\* never started, and a task that is not there
IdleTaskStore == [StartedStore EXCEPT !.state.doc.active_task = "t2"]
DanglingStore == [StartedStore EXCEPT !.state.doc.active_task = "t9"]

\* permits.json after two steps were checked and given a permit each: the
\* first for the test command, issued at 0, the second for reads, issued at 1
TwoChecks ==
  LET one == checkStep(TestContract, <<>>, <<>>, <<>>, "Wire the auth call", <<"SC2">>, 0, 10)
  IN checkStep(TestContract, one.checks, <<>>, <<>>, "Wire the auth call", <<"SC1">>, 0,
               one.ids)
TwoPermits ==
  LET c == TwoChecks.checks
      one == issuePermit(c, <<>>, <<>>, c[2].step_id, 2,
                         Allow(<<"pnpm test">>, <<"github/*">>, <<>>, <<>>), 0, TwoChecks.ids)
  IN issuePermit(c, one.permits, <<>>, c[1].step_id, 2,
                 Allow(<<>>, <<>>, <<"src/**">>, <<>>), 1, one.ids)

\* the workspaces the hook runs in: the state store, policy.json, and the
\* files of the permit authority
Workspace(st, file, checksDoc, permitsDoc) ==
  [store |-> st, policyFile |-> file, checks |-> checksDoc, permits |-> permitsDoc]
Workspaces ==
  {Workspace(FreshStore(TestContract), NoPolicyFile, <<>>, <<>>),
   Workspace(SeededStore, NoPolicyFile, <<>>, <<>>),
   Workspace(StartedStore, NoPolicyFile, <<>>, <<>>),
   Workspace(StartedStore, ScopeFile, <<>>, <<>>),
   Workspace(IdleTaskStore, NoPolicyFile, <<>>, <<>>),
   Workspace(DanglingStore, NoPolicyFile, <<>>, <<>>),
   Workspace(StartedStore, LegacyFile, <<>>, <<>>),
   Workspace(FreshStore(MissingContract), OrderFile, <<>>, <<>>),
   Workspace(FreshStore(TestContract), StrictFile, <<>>, <<>>),
   Workspace(FreshStore(TestContract), StrictFile, TwoChecks.checks, TwoPermits.permits)}

\* what guardian_preview_action may answer
Previews ==
  {PreviewResult(TRUE, "HIGH_RISK", "High-risk command pattern", None, None),
   PreviewResult(FALSE, "HARD_BLOCK", "Blocked by policy - cannot be permitted", None, None),
   PreviewResult(FALSE, "WARN", "Warning limit exceeded. Request a permit to proceed.", None,
                 Some([allow_field |-> "allow_shell", allow_pattern |-> "git*"])),
   PreviewResult(FALSE, "PERMIT_REQUIRED", "No valid permit for this command", None,
                 Some([allow_field |-> "allow_shell", allow_pattern |-> "git*"]))}

\* the events the hook is started with
HookInputs ==
  {HookInput("json", "beforeShellExecution", v, None, FALSE) : v \in ShellValues \cup {""}}
  \cup {HookInput("json", "beforeMCPExecution", v, None, FALSE) : v \in McpValues}
  \cup {HookInput("json", "beforeReadFile", v, None, FALSE) : v \in ReadValues}
  \cup {HookInput("json", "beforeShellExecution", "git reset --hard", Some(pv), FALSE) :
          pv \in Previews}
  \cup {HookInput("json", "afterFileEdit", "src/login.ts", None, FALSE),
        HookInput("json", "sessionStart", "", None, FALSE),
        HookInput("not json", "", "", None, FALSE),
        HookInput("json", "beforeShellExecution", "git reset --hard", None, TRUE)}
  \cup {Unreachable(HookInput("json", "beforeShellExecution", "git reset --hard", None, FALSE)),
        Unreachable(HookInput("json", "beforeMCPExecution", "github/create_issue", None, FALSE)),
        Unreachable(HookInput("json", "beforeReadFile", ".env", None, FALSE))}

\* One run of the hook, start to end.
Gate(input) ==
  /\ \E r \in {main(input, policy, permits, store.state, violations, store.contract, clock)} :
        /\ violations' = r.violations
        /\ hook' = [input |-> input, stage |-> r.stage, response |-> r.response,
                    audited |-> r.audited, severity |-> r.severity, rule |-> r.rule,
                    stdout |-> stdoutOf(r.stage, r.response),
                    elapsed |-> IF r.stage \in {"invalid_json", "fatal"} THEN 0
                                ELSE clock - loadViolations(violations, clock).lastReset]
  /\ UNCHANGED <<policy, permits, checks, progress, clock, disk, scopeRun, cursorDir, gateRuns>>
  /\ UNCHANGED storeVars

\* A minute passes.
Elapse ==
  /\ clock < MaxGateClock
  /\ clock' = clock + 1
  /\ UNCHANGED <<policy, violations, permits, checks, progress, hook, disk, scopeRun, cursorDir, gateRuns>>
  /\ UNCHANGED storeVars

\* The tools of the permit authority, one call each.
\* the files a call leaves hold no more than MaxRecords records, or no more
\* records than they held before the call
Fits(a) ==
  \/ Len(a.checks) + Len(a.permits) + Len(a.progress) <= MaxRecords
  \/ Len(a.checks) + Len(a.permits) + Len(a.progress)
        <= Len(checks) + Len(permits) + Len(progress)

Told(tool, a) == [op |-> tool, type |-> a.subject, ok |-> a.ok, error |-> a.text]

CheckStep(step, mapsTo) ==
  /\ LET a == checkStep(store.contract, checks, permits, progress, step, mapsTo, clock, idSeq)
     IN /\ Fits(a)
        /\ checks' = a.checks
        /\ idSeq' = a.ids
        /\ last' = Told("guardian_check_step", a)
  /\ UNCHANGED <<rules, reducerJs, store, clock, inflight, written, tampers>>
  /\ UNCHANGED <<policy, violations, permits, progress, hook, disk, scopeRun, cursorDir, gateRuns>>

IssuePermit(step_id, ttl, allow) ==
  /\ LET a == issuePermit(checks, permits, progress, step_id, ttl, allow, clock, idSeq)
     IN /\ Fits(a)
        /\ permits' = a.permits
        /\ idSeq' = a.ids
        /\ last' = Told("guardian_issue_permit", a)
  /\ UNCHANGED <<rules, reducerJs, store, clock, inflight, written, tampers>>
  /\ UNCHANGED <<policy, violations, checks, progress, hook, disk, scopeRun, cursorDir, gateRuns>>

CommitResult(step_id) ==
  /\ LET a == commitResult(checks, permits, progress, step_id, clock, idSeq)
     IN /\ Fits(a)
        /\ permits' = a.permits
        /\ progress' = a.progress
        /\ last' = Told("guardian_commit_result", a)
  /\ UNCHANGED <<rules, reducerJs, store, clock, idSeq, inflight, written, tampers>>
  /\ UNCHANGED <<policy, violations, checks, hook, disk, scopeRun, cursorDir, gateRuns>>

\* guardian_preview_action in a workspace whose policy.json is file: it
\* answers and writes nothing
PreviewAction(file, action_type, action_value) ==
  /\ policy = loadPolicy(file)
  /\ LET r == previewAction(previewLoadPolicy(file), permits, violations, action_type,
                            action_value, clock)
     IN last' = [op |-> "guardian_preview_action", type |-> action_type,
                 ok |-> r.wouldSucceed, error |-> r.reason]
  /\ UNCHANGED <<rules, reducerJs, store, clock, idSeq, inflight, written, tampers>>
  /\ UNCHANGED gateVars

\* the step ids a caller can quote, one of them unknown to checks.json
StepIds == {checks[i].step_id : i \in 1..Len(checks)} \cup {"step_unknown"}
MapsTos == {<<"SC1">>, <<"SC1", "SC9">>}
Allows == {Allow(<<"pnpm test">>, <<>>, <<>>, <<>>)}
Ttls == {1}

\* ----------------------------------------------------------- specifications
\* A single writer and the built-in reducer, strict mode and all invariants on.
Init == InitWith({snapRules}, {"template"}, {TestContract})

Next ==
  \/ \E p \in Partials(CurrentDoc) : Dispatch(p, MaxActions)
  \/ Rebuild

Spec == Init /\ [][Next]_vars

\* A workspace with or without a contract, state.json open to edits from
\* outside the engine.
InitEdit == InitWith({snapRules}, {"template"}, {TestContract, MissingContract})

NextEdit ==
  \/ \E p \in Partials(CurrentDoc) : Dispatch(p, MaxEditActions)
  \/ Rebuild
  \/ \E kind \in TamperKinds : Tamper(kind)

SpecEdit == InitEdit /\ [][NextEdit]_vars

\* Workspaces whose rules.json prefers the built-in reducer (reducer.js is then
\* not read) or reducer.js,
\* with each kind of reducer.js, and the clock running.
InitJs ==
  \/ InitWith({snapRules}, {"template"}, {TestContract})
  \/ InitWith({jsRules}, ReducerFiles, {TestContract})

NextJs ==
  \/ \E p \in Partials(CurrentDoc) : Dispatch(p, MaxJsActions)
  \/ Rebuild
  \/ Tick

SpecJs == InitJs /\ [][NextJs]_vars

\* Two callers of dispatchAction on one workspace, with or without a contract,
\* and the clock running.
InitConc == InitWith({snapRules}, {"template"}, {TestContract, MissingContract})

NextConc ==
  \/ \E w \in Writers : \E p \in Partials(CurrentDoc) : Load(w, p)
  \/ \E w \in Writers : Commit(w)
  \/ Tick

SpecConc == InitConc /\ [][NextConc]_vars

\* The hook in each of the workspaces, the minutes passing.
InitGate ==
  /\ \E w \in Workspaces :
       /\ store = w.store
       /\ policy = loadPolicy(w.policyFile)
       /\ checks = w.checks
       /\ permits = w.permits
  /\ rules = snapRules
  /\ reducerJs = "template"
  /\ clock = 1
  /\ idSeq = 0
  /\ inflight = [w \in Writers |-> Idle]
  /\ last = [op |-> "init", type |-> "", ok |-> TRUE, error |-> ""]
  /\ written = MissingState
  /\ tampers = 0
  /\ violations = MissingViolations
  /\ progress = <<>>
  /\ hook = NoHook
  /\ disk = Quiet
  /\ scopeRun = NoScopeRun
  /\ cursorDir = NoCursorFiles
  /\ gateRuns = NoGateRuns

NextGate ==
  \/ \E input \in HookInputs : Gate(input)
  \/ Elapse

SpecGate == InitGate /\ [][NextGate]_vars

\* The permit authority on a workspace with or without a contract.
Contracts == {TestContract, MissingContract, BlankGoalContract, NoCriteriaContract}
InitPermit == InitWith({snapRules}, {"template"}, Contracts)

NextPermit ==
  \/ \E step \in Steps, mapsTo \in MapsTos : CheckStep(step, mapsTo)
  \/ \E id \in StepIds, ttl \in Ttls, allow \in Allows : IssuePermit(id, ttl, allow)
  \/ \E id \in StepIds : CommitResult(id)
  \/ Tick

SpecPermit == InitPermit /\ [][NextPermit]_vars

\* The permit authority, the preview tool and the hook on a workspace that asks
\* for permits, where two steps were approved and three permits were issued for
\* them, in any order; the first one issued lives for one minute, the later
\* ones for two.
PermitOrders == {<<a, b, c>> : a \in {1, 2}, b \in {1, 2}, c \in {1, 2}}
SeededPermits(order) ==
  LET c == TwoChecks.checks
      grant == Allow(<<"pnpm test">>, <<>>, <<>>, <<>>)
      one == issuePermit(c, <<>>, <<>>, c[order[1]].step_id, 1, grant, 0, TwoChecks.ids)
      two == issuePermit(c, one.permits, <<>>, c[order[2]].step_id, 2, grant, 0, one.ids)
  IN issuePermit(c, two.permits, <<>>, c[order[3]].step_id, 2, grant, 0, two.ids)

InitCommit ==
  /\ rules = snapRules
  /\ reducerJs = "template"
  /\ store = [state |-> MissingState, actions |-> MissingActions,
              snapshot |-> MissingSnapshot, contract |-> TestContract]
  /\ clock = 0
  /\ inflight = [w \in Writers |-> Idle]
  /\ last = [op |-> "init", type |-> "", ok |-> TRUE, error |-> ""]
  /\ written = MissingState
  /\ tampers = 0
  /\ policy = loadPolicy(StrictFile)
  /\ violations = MissingViolations
  /\ checks = TwoChecks.checks
  /\ progress = <<>>
  /\ hook = NoHook
  /\ disk = Quiet
  /\ scopeRun = NoScopeRun
  /\ cursorDir = NoCursorFiles
  /\ gateRuns = NoGateRuns
  /\ \E order \in PermitOrders :
        /\ permits = SeededPermits(order).permits
        /\ idSeq = SeededPermits(order).ids

\* what the agent tries there: a command the permits list and a file they do not
PermitInputs ==
  {HookInput("json", "beforeShellExecution", "pnpm test", None, FALSE),
   HookInput("json", "beforeReadFile", "src/login.ts", None, FALSE)}
PreviewInputs == {<<"shell", "pnpm test">>, <<"write", "src/login.ts">>}

NextCommit ==
  \/ \E id \in StepIds : CommitResult(id)
  \/ \E id \in StepIds, ttl \in Ttls, allow \in Allows : IssuePermit(id, ttl, allow)
  \/ \E input \in PermitInputs : Gate(input)
  \/ \E a \in PreviewInputs : PreviewAction(StrictFile, a[1], a[2])
  \/ Tick

SpecCommit == InitCommit /\ [][NextCommit]_vars

\* Writers and readers of the files, a step at a time. fs.writeFile opens its
\* file truncated and fills it in; until it is done a reader finds the
\* beginning of the document. fs.rename puts a finished file in place.
OnDisk(f, torn, tmp) ==
  /\ disk' = [disk EXCEPT ![f] = [torn |-> torn, tmp |-> tmp]]
  /\ UNCHANGED <<policy, violations, permits, checks, progress, hook, scopeRun, cursorDir, gateRuns>>
  /\ UNCHANGED <<rules, reducerJs, store, clock, idSeq, inflight, written, tampers>>

\* writeJsonAtomic: fs.writeFile(tmp, ...)
WriteTmp(f) ==
  /\ f \in AtomicFiles /\ ~disk[f].tmp
  /\ OnDisk(f, disk[f].torn, TRUE)
  /\ last' = [op |-> "writeFile", type |-> f, ok |-> TRUE, error |-> ""]

\* writeJsonAtomic: fs.rename(tmp, filePath)
Rename(f) ==
  /\ f \in AtomicFiles /\ disk[f].tmp
  /\ OnDisk(f, FALSE, FALSE)
  /\ last' = [op |-> "rename", type |-> f, ok |-> TRUE, error |-> ""]

\* saveViolations: fs.writeFile(filePath, ...) has opened the file
WriteInPlace(f) ==
  /\ f \in InPlaceFiles /\ ~disk[f].torn
  /\ OnDisk(f, TRUE, disk[f].tmp)
  /\ last' = [op |-> "writeFile", type |-> f, ok |-> TRUE, error |-> ""]

\* saveViolations: fs.writeFile is done
WriteDone(f) ==
  /\ f \in InPlaceFiles /\ disk[f].torn
  /\ OnDisk(f, FALSE, disk[f].tmp)
  /\ last' = [op |-> "writeFile done", type |-> f, ok |-> TRUE, error |-> ""]

\* readJson / loadViolations in another process: JSON.parse of what is there
ReadFile(f) ==
  /\ last' = [op |-> "readFile", type |-> f, ok |-> ~disk[f].torn,
              error |-> IF disk[f].torn THEN "Unexpected end of JSON input" ELSE ""]
  /\ UNCHANGED <<rules, reducerJs, store, clock, idSeq, inflight, written, tampers>>
  /\ UNCHANGED gateVars

InitWrite == InitWith({snapRules}, {"template"}, {TestContract})

NextWrite ==
  \/ \E f \in Files : WriteTmp(f)
  \/ \E f \in Files : Rename(f)
  \/ \E f \in Files : WriteInPlace(f)
  \/ \E f \in Files : WriteDone(f)
  \/ \E f \in Files : ReadFile(f)

SpecWrite == InitWrite /\ [][NextWrite]_vars

\* ------------------------------------------------------- hook runs that overlap
\* Every event starts a process of the hook. A process reads violations.json
\* when it starts (line 852) and writes it when it has counted a warning (line
\* 1017); other processes may run in between.
MaxRuns == 4

\* lines 856-859: the tracker as the process leaves it on disk before it
\* classifies
resetIfDue(file, pol, now) ==
  LET loaded == loadViolations(file, now)
  IN IF shouldResetWarnings(loaded, pol.warningConfig.warningResetMinutes, now)
     THEN saveViolations(resetWarnings(loaded, now))
     ELSE file

\* what the process h does with the violations.json it read when it started
RunOf(run) ==
  main(run.input, policy, permits, store.state, run.file, store.contract, run.started)

Running == {h \in HookProcs : gateRuns.procs[h].pc = "loaded"}

\* The process h starts on input: it reads violations.json and resets it if
\* the window has run out.
HookStart(h, input) ==
  /\ gateRuns.procs[h].pc = "idle"
  /\ Len(gateRuns.warned) + Cardinality(Running) < MaxRuns
  /\ \E run \in {[pc |-> "loaded", input |-> input, file |-> violations,
                    started |-> clock]} :
       \E r \in {RunOf(run)} :
         /\ violations' = IF r.stage \in {"warn", "limit"}
                          THEN resetIfDue(violations, policy, clock)
                          ELSE r.violations
         /\ gateRuns' = [gateRuns EXCEPT !.procs[h] = run]
  /\ UNCHANGED <<policy, permits, checks, progress, clock, hook, disk, scopeRun, cursorDir>>
  /\ UNCHANGED storeVars

\* The process h classifies the action and answers; a warning below the limit
\* is counted in the tracker the process read and the tracker is saved.
HookAnswer(h) ==
  /\ gateRuns.procs[h].pc = "loaded"
  /\ \E run \in {gateRuns.procs[h]} : \E r \in {RunOf(run)} :
        /\ violations' = IF r.stage = "warn" THEN r.violations ELSE violations
        /\ hook' = [input |-> run.input, stage |-> r.stage, response |-> r.response,
                    audited |-> r.audited, severity |-> r.severity, rule |-> r.rule,
                    stdout |-> stdoutOf(r.stage, r.response),
                    elapsed |-> IF r.stage \in {"invalid_json", "fatal"} THEN 0
                                ELSE run.started
                                       - loadViolations(run.file, run.started).lastReset]
        /\ gateRuns' =
             [procs |-> [gateRuns.procs EXCEPT ![h] = NoRun],
              warned |-> IF r.stage \in {"warn", "limit"}
                         THEN Append(gateRuns.warned,
                                     [pattern |-> r.rule[1].pattern, started |-> run.started])
                         ELSE gateRuns.warned]
  /\ UNCHANGED <<policy, permits, checks, progress, clock, disk, scopeRun, cursorDir>>
  /\ UNCHANGED storeVars

\* the shell commands the processes are started on: two that match a WARN
\* rule and one that is allowed
OverlapInputs ==
  {HookInput("json", "beforeShellExecution", v, None, FALSE) :
     v \in {"git reset --hard", "echo --force", "git status"}}

\* Hook processes that overlap, the minutes passing; in a workspace with a
\* started task and the default policy, and in one whose policy has a reset
\* window of one minute.
OverlapWorkspaces ==
  {Workspace(StartedStore, NoPolicyFile, <<>>, <<>>),
   Workspace(FreshStore(TestContract), StrictFile, <<>>, <<>>)}

InitHooks ==
  /\ \E w \in OverlapWorkspaces :
       /\ store = w.store
       /\ policy = loadPolicy(w.policyFile)
       /\ checks = w.checks
       /\ permits = w.permits
  /\ rules = snapRules
  /\ reducerJs = "template"
  /\ clock = 1
  /\ idSeq = 0
  /\ inflight = [w \in Writers |-> Idle]
  /\ last = [op |-> "init", type |-> "", ok |-> TRUE, error |-> ""]
  /\ written = MissingState
  /\ tampers = 0
  /\ violations = MissingViolations
  /\ progress = <<>>
  /\ hook = NoHook
  /\ disk = Quiet
  /\ scopeRun = NoScopeRun
  /\ cursorDir = NoCursorFiles
  /\ gateRuns = NoGateRuns

NextHooks ==
  \/ \E h \in HookProcs : \E input \in OverlapInputs : HookStart(h, input)
  \/ \E h \in HookProcs : HookAnswer(h)
  \/ Elapse

SpecHooks == InitHooks /\ [][NextHooks]_vars

\* The scope check of the hook on one action, in workspaces that differ in
\* state.json and in the sensitivity policy.json asks for.
\* state.json after ADD_TASKS with one task of that title, PIN_CONTEXT for each
\* path, and START_TASK if started
RECURSIVE Pinned(_, _, _)
Pinned(st, paths, ids) ==
  IF paths = <<>> THEN st
  ELSE Pinned(dispatchAction(st, Partial("agent", "PIN_CONTEXT", [path |-> Head(paths)]),
                             snapRules, "template", 0, ids).store,
              Tail(paths), ids)
TitledStore(title, paths, started) ==
  LET added == dispatchAction(FreshStore(TestContract),
                              Partial("agent", "ADD_TASKS",
                                      [tasks |-> <<[id |-> Some("t1"), title |-> title]>>]),
                              snapRules, "template", 0, 0)
      pinned == Pinned(added.store, paths, added.ids)
  IN IF started
     THEN dispatchAction(pinned,
                         Partial("agent", "START_TASK",
                                 [taskId |-> "t1", decision_id |-> None]),
                         snapRules, "template", 0, added.ids).store
     ELSE pinned
ScopeStores ==
  {FreshStore(TestContract),
   TitledStore("Wire login form", <<>>, FALSE),
   TitledStore("Task 1", <<>>, TRUE),
   TitledStore("Wire login form", <<>>, TRUE),
   TitledStore("Wire login form", <<".env">>, TRUE)}

\* policy.json naming a sensitivity, one that is none of the three included
Sensitivities == {"strict", "balanced", "lenient", "paranoid"}
SensitivityFile(mode) ==
  PolicyFile([NoPolicyFile.doc EXCEPT !["taskScopeSensitivity"] = Some(mode)])

\* the actions put to the scope check
ScopeActions ==
  {<<"shell", "git status --force">>, <<"shell", "pnpm test">>,
   <<"shell", "git reset --hard">>, <<"shell", "mkfs.ext4 disk.img">>,
   <<"shell", "rm -rf /">>,
   <<"mcp", "goal-guardian/guardian_check_step">>, <<"mcp", "github/create_issue">>,
   <<"read", ".env">>, <<"read", "src/login.ts">>,
   <<"read", "apps/billing/package.json">>, <<"read", "src/forms/index.ts">>}

\* main: the scope check of an action and the response it writes for a drift
ScopeCheck(actionType, actionValue) ==
  /\ policy.enforceTaskScope
  /\ LET found == evaluateTaskScopeDrift(policy, store.state, actionType, actionValue)
     IN scopeRun' =
          [actionType |-> actionType, actionValue |-> actionValue, result |-> found,
           response |-> IF found = None THEN None
                        ELSE Some(scopeWarn(policy, store.contract, actionType,
                                            actionValue, found[1]))]
  /\ UNCHANGED <<policy, violations, permits, checks, progress, hook, disk, cursorDir, gateRuns>>
  /\ UNCHANGED <<clock>>
  /\ UNCHANGED storeVars

InitScope ==
  /\ store \in ScopeStores
  /\ policy \in {loadPolicy(NoPolicyFile)}
                 \cup {loadPolicy(SensitivityFile(mode)) : mode \in Sensitivities}
  /\ rules = snapRules
  /\ reducerJs = "template"
  /\ clock = 1
  /\ idSeq = 0
  /\ inflight = [w \in Writers |-> Idle]
  /\ last = [op |-> "init", type |-> "", ok |-> TRUE, error |-> ""]
  /\ written = MissingState
  /\ tampers = 0
  /\ violations = MissingViolations
  /\ permits = <<>>
  /\ checks = <<>>
  /\ progress = <<>>
  /\ hook = NoHook
  /\ disk = Quiet
  /\ scopeRun = NoScopeRun
  /\ cursorDir = NoCursorFiles
  /\ gateRuns = NoGateRuns

NextScope == \E a \in ScopeActions : ScopeCheck(a[1], a[2])

SpecScope == InitScope /\ [][NextScope]_vars

\* The cleanup of the legacy wiring, run again and again on workspaces that
\* differ in hooks.json and mcp.json.
GuardianHook == "node /x/goal-guardian-hook.js --mcp /x/goal-guardian-mcp.js"
HooksFiles ==
  {MissingFile, BrokenFile,
   JsonFile(HooksDoc(Some(1),
       Some(<<HookEntry("beforeShellExecution",
                        Handlers(<<GuardianHook, "node /x/custom-hook.js">>)),
              HookEntry("beforeReadFile", Handlers(<<"cursor-goal-guardian-hook">>)),
              HookEntry("stop", Handlers(<<"echo done">>))>>))),
   JsonFile(HooksDoc(Some(1),
       Some(<<HookEntry("beforeShellExecution",
                        Handlers(<<"cursor-goal-guardian-hook">>))>>))),
   JsonFile(HooksDoc(Some(1),
       Some(<<HookEntry("beforeShellExecution",
                        Handlers(<<"node /x/custom-hook.js">>))>>))),
   JsonFile(HooksDoc(None,
       Some(<<HookEntry("stop", Handlers(<<>>)),
              HookEntry("beforeReadFile",
                        Handlers(<<NoCommand, "cursor-goal-guardian-hook">>))>>))),
   JsonFile(HooksDoc(Some(2), Some(<<HookEntry("beforeShellExecution", NotArray)>>))),
   JsonFile(HooksDoc(Some(1), None))}
McpFiles ==
  {MissingFile, BrokenFile,
   JsonFile(McpDoc(Some(<<McpEntry("goal-guardian", "node /x/goal-guardian-mcp.js"),
                          McpEntry("filesystem", "npx server-filesystem")>>), <<>>)),
   JsonFile(McpDoc(Some(<<McpEntry("goal-guardian", "node /x/goal-guardian-mcp.js")>>),
                   <<"inputs">>)),
   JsonFile(McpDoc(Some(<<McpEntry("filesystem", "npx server-filesystem")>>), <<>>)),
   JsonFile(McpDoc(Some(<<McpEntry("goal-guardian", Null)>>), <<>>)),
   JsonFile(McpDoc(None, <<"inputs">>))}

\* one run of cleanupLegacyIntegration
Cleanup ==
  /\ cursorDir' = cleanupLegacyIntegration(cursorDir, clock)
  /\ UNCHANGED <<policy, violations, permits, checks, progress, hook, disk, scopeRun,
               gateRuns>>
  /\ UNCHANGED <<clock>>
  /\ UNCHANGED storeVars

InitCleanup ==
  /\ \E h \in HooksFiles, m \in McpFiles : cursorDir = CursorDir(h, m)
  /\ gateRuns = NoGateRuns
  /\ store = FreshStore(TestContract)
  /\ policy = loadPolicy(NoPolicyFile)
  /\ rules = snapRules
  /\ reducerJs = "template"
  /\ clock = 0
  /\ idSeq = 0
  /\ inflight = [w \in Writers |-> Idle]
  /\ last = [op |-> "init", type |-> "", ok |-> TRUE, error |-> ""]
  /\ written = MissingState
  /\ tampers = 0
  /\ violations = MissingViolations
  /\ permits = <<>>
  /\ checks = <<>>
  /\ progress = <<>>
  /\ hook = NoHook
  /\ disk = Quiet
  /\ scopeRun = NoScopeRun

NextCleanup == Cleanup \/ Tick

SpecCleanup == InitCleanup /\ [][NextCleanup]_vars

\* ------------------------------------------------------------ task switching
Doc == store.state.doc
TaskStatus(doc, id) ==
  LET k == FindIndex(doc.tasks, id) IN IF k = 0 THEN "absent" ELSE doc.tasks[k].status
DoingTasks(doc) == {i \in 1..Len(doc.tasks) : doc.tasks[i].status = "doing"}

\* T1 is the active task and p starts another, existing task T2, with the
\* default invariants on
IsSwitch(p) ==
  /\ p.type = "START_TASK"
  /\ rules.preferredReducer = "json"
  /\ rules.invariants.singleActiveTask
  /\ rules.invariants.requireDecisionForTaskSwitch
  /\ store.state.exists
  /\ Doc.active_task \notin {Null, p.payload.taskId}
  /\ TaskStatus(Doc, p.payload.taskId) # "absent"

QuotesDecision(p) ==
  /\ p.payload.decision_id # None
  /\ \E i \in 1..Len(Doc.decisions) : Doc.decisions[i].id = p.payload.decision_id[1]

\* C1 (as amended): when T1 is the active task, a START_TASK(T2) dispatch
\* succeeds exactly when its payload carries, as decision_id, the id of a
\* decision recorded in the state; when it succeeds T2 is the active task.
C1_SwitchNeedsQuotedDecision ==
  [][\A p \in Partials(CurrentDoc) :
       (IsSwitch(p) /\ Dispatch(p, MaxActions))
         => /\ last'.ok <=> QuotesDecision(p)
            /\ last'.ok => store'.state.doc.active_task = p.payload.taskId]_vars

\* C1 witness: a switch from t1 to t2 that went through
C1_SwitchHappened ==
  /\ last = [op |-> "dispatch", type |-> "START_TASK", ok |-> TRUE, error |-> ""]
  /\ Doc.active_task = "t2"
  /\ TaskStatus(Doc, "t1") = "doing"
  /\ Doc.decisions # <<>>

\* C1 (as stated): when T1 is the active task, START_TASK(T2) fails while no
\* decision has been added and succeeds once one has been.
C1_SwitchNeedsSomeDecision ==
  [][\A p \in Partials(CurrentDoc) :
       (IsSwitch(p) /\ Dispatch(p, MaxActions))
         => /\ last'.ok <=> Doc.decisions # <<>>
            /\ last'.ok => store'.state.doc.active_task = p.payload.taskId]_vars

\* C2 (as stated): with singleActiveTask on, at most one task is 'doing'.
C2_AtMostOneDoing ==
  (store.state.exists /\ rules.invariants.singleActiveTask)
    => Cardinality(DoingTasks(Doc)) <= 1

\* ---------------------------------------------------------- todo -> done
\* C9: with disallowTodoToDone on, COMPLETE_TASK on a 'todo' task without
\* allowSkip fails and changes nothing, and whenever a task goes from 'todo'
\* to 'done' in one step, the step is a COMPLETE_TASK of that task with allowSkip.
C9_NoTodoToDoneWithoutSkip ==
  [][(rules.invariants.disallowTodoToDone /\ rules.preferredReducer = "json") =>
       /\ \A p \in Partials(CurrentDoc) :
            (/\ p.type = "COMPLETE_TASK"
             /\ TaskStatus(CurrentDoc, p.payload.taskId) = "todo"
             /\ ~p.payload.allowSkip
             /\ Dispatch(p, MaxActions))
              => (~last'.ok /\ store'.state = store.state
                             /\ store'.actions.log = store.actions.log)
       /\ \A id \in TaskIds :
            (/\ TaskStatus(CurrentDoc, id) = "todo"
             /\ TaskStatus(store'.state.doc, id) = "done")
              => \E p \in Partials(CurrentDoc) :
                    /\ p.type = "COMPLETE_TASK"
                    /\ p.payload = [taskId |-> id, allowSkip |-> TRUE]
                    /\ Dispatch(p, MaxActions)]_vars

\* C9 witness: a COMPLETE_TASK refused because the task was never started
C9_CompleteRefused ==
  /\ last = [op |-> "dispatch", type |-> "COMPLETE_TASK", ok |-> FALSE,
             error |-> "Cannot complete a task that has not been started"]
  /\ \E id \in TaskIds : TaskStatus(Doc, id) = "todo"

\* ------------------------------------------------------------------ rebuild
\* the fields of the state that the log determines
View(doc) ==
  [goal |-> doc.goal, tasks |-> doc.tasks, active_task |-> doc.active_task,
   queue |-> doc.queue, open_questions |-> doc.open_questions,
   decisions |-> doc.decisions, pinned_context |-> doc.pinned_context]

\* C6 (as stated): a rebuild that follows a successful dispatch succeeds and
\* yields the goal, tasks, active_task, queue, open_questions, decisions and
\* pinned_context of the state that dispatch persisted.
C6_RebuildYieldsPersistedView ==
  [][(/\ rules.preferredReducer = "json"
      /\ store.state.exists
      /\ last.op = "dispatch" /\ last.ok
      /\ Rebuild)
       => (last'.ok /\ View(store'.state.doc) = View(Doc))]_vars

\* C7 (as stated): two runs of rebuild over the same log, snapshot and contract
\* write the same state.json, hash included (here even when both runs read
\* the same time, so that only the ids they draw can differ).
C7_RebuildTwiceIdentical ==
  LET a == rebuildState(store, rules, reducerJs, clock, idSeq)
      b == rebuildState(store, rules, reducerJs, clock, a.ids)
  IN (a.ok /\ b.ok) => a.store.state = b.store.state

\* ---------------------------------------------------- edits from outside
ManualEdit == "State file was edited manually"

\* state.json exists and is not what the engine last wrote
EditedOutside == store.state.exists /\ store.state # written

\* C4 (as stated): in strict mode a dispatch that finds state.json edited
\* outside the engine fails and changes neither state.json nor actions.jsonl.
C4_EditedStateRejected ==
  [][\A p \in Partials(CurrentDoc) :
       (rules.strictMode /\ EditedOutside /\ Dispatch(p, MaxEditActions))
         => /\ ~last'.ok
            /\ store'.state = store.state
            /\ store'.actions = store.actions]_vars

\* C5 (as amended): a rejected dispatch leaves the log, snapshot.json and
\* contract.json as they were, and state.json too when it existed; a missing
\* state.json is created from the contract seed before the action is examined.
C5_RejectedPersistsNoAction ==
  [][\A p \in Partials(CurrentDoc) :
       (Dispatch(p, MaxEditActions) /\ ~last'.ok)
         => /\ store'.actions.log = store.actions.log
            /\ store'.snapshot = store.snapshot
            /\ store'.contract = store.contract
            /\ store'.state = IF store.state.exists THEN store.state
                              ELSE [exists |-> TRUE,
                                    doc |-> seedStateFromContract(store.contract, clock)]]_vars

\* C5 witness: a dispatch rejected by an invariant on a workspace with a log
C5_RejectedWithLog ==
  /\ last.op = "dispatch" /\ ~last.ok
  /\ last.error = "Cannot complete a task that has not been started"
  /\ store.actions.log # <<>>

\* C5 (as stated): a rejected dispatch leaves all four files exactly as they were.
C5_RejectedPersistsNothing ==
  [][\A p \in Partials(CurrentDoc) :
       (Dispatch(p, MaxEditActions) /\ ~last'.ok) => store' = store]_vars

\* C8: once a dispatch has failed on the hash check, a further dispatch fails
\* the same way and changes nothing; a rebuild that completes leaves a state
\* whose stored hash agrees, and the dispatch after it is not refused for the
\* hash (a SET_GOAL or PIN_CONTEXT, valid in any state, is accepted).
C8_MismatchLastsUntilRebuild ==
  [][/\ \A p \in Partials(CurrentDoc) :
          (last.op = "dispatch" /\ last.error = ManualEdit /\ Dispatch(p, MaxEditActions))
            => (~last'.ok /\ last'.error = ManualEdit /\ store' = store)
     /\ (Rebuild /\ last'.ok) => ~HashMismatch(rules, store'.state.doc)
     /\ \A p \in Partials(CurrentDoc) :
          (last.op = "rebuild" /\ last.ok /\ Dispatch(p, MaxEditActions))
            => /\ last'.error # ManualEdit
               /\ p.type \in {"SET_GOAL", "PIN_CONTEXT"} => last'.ok]_vars

\* C8 witness: a dispatch refused on the hash check
C8_DispatchRefused ==
  /\ last.op = "dispatch" /\ ~last.ok /\ last.error = ManualEdit
  /\ HashMismatch(rules, Doc)

\* ------------------------------------------------------ unknown action types
\* the transition is made by applyActionJson
BuiltInReducer == rules.preferredReducer = "json" \/ reducerJs = "unloadable"

UnknownRejected(p) ==
  /\ ~last'.ok
  /\ store'.actions.log = store.actions.log
  /\ store'.state = ensureStateStoreFiles(store, clock).state
  /\ store'.snapshot = store.snapshot
  /\ store'.contract = store.contract

C3_LateWriterRejected ==
  [][\A w \in Writers :
       (/\ rules.strictMode
        /\ inflight[w].pc = "loaded"
        /\ inflight[w].current # Doc
        /\ Commit(w))
         => (~last'.ok /\ store' = store)]_vars

\* ================================================================== the gate
\* what the last run of the hook answered
Allowed == hook.response.continue = TRUE /\ hook.response.permission = "allow"

\* the run classified the action itself (no Redux advisory, no scope warning
\* and no preview answered first)
LocalStages ==
  {"high_risk", "allowed", "limit", "warn", "permit_not_required", "no_permit",
   "permit_mismatch", "permitted"}

ActionRun ==
  /\ hook.input.raw = "json"
  /\ ~hook.input.fails
  /\ hook.input.event \in DOMAIN ActionTypes
  /\ hook.input.value # ""
ActionType == ActionTypes[hook.input.event]

\* the rules of the policy for a kind of action
RulesFor(pol, actionType) ==
  CASE actionType = "shell" -> pol.shellRules
    [] actionType = "mcp" -> pol.mcpRules
    [] actionType = "read" -> pol.readRules

\* the classification of an action is HIGH_RISK: its first matching rule says
\* so, or a highRiskPatterns glob matches
IsHighRisk(pol, actionType, value) ==
  \/ classifySeverity(RulesFor(pol, actionType), value).severity = "HIGH_RISK"
  \/ globAny(pol.highRiskPatterns[actionType], value)

\* the response shows the user a warning and names the action high-risk
FlagsHighRisk(response) ==
  /\ response.userMessage # None
  /\ response.agentMessage # None
  /\ response.agentMessage[1].template \in
       {"{value} matches a high-risk advisory policy pattern.",
        "High-risk action flagged by MCP policy. {value}"}

\* C12 (as stated): an action whose classification is HIGH_RISK is allowed and
\* the response flags it as high-risk, whatever the workspace holds (a state
\* file or none, an active task or none, a permit or none).
C12_HighRiskFlagged ==
  (ActionRun /\ IsHighRisk(policy, ActionType, hook.input.value))
    => (Allowed /\ FlagsHighRisk(hook.response))

\* the indices of the rules whose pattern matches the action of the last run
MatchingRules ==
  LET rls == RulesFor(policy, ActionType)
  IN {i \in 1..Len(rls) : minimatch(hook.input.value, rls[i].pattern)}

\* the action matches a WARN rule and an ALLOWED rule of the list
MatchesWarnAndAllowed ==
  LET rls == RulesFor(policy, ActionType)
  IN /\ \E i \in MatchingRules : rls[i].severity = "WARN"
     /\ \E i \in MatchingRules : rls[i].severity = "ALLOWED"

\* a glob of the two pattern lists of the policy matches the action
ListMatches ==
  \/ globAny(policy.highRiskPatterns[ActionType], hook.input.value)
  \/ globAny(policy.alwaysAllow[ActionType], hook.input.value)

\* the tier whose branch of the dispatch answered
Verdict ==
  CASE hook.stage = "high_risk" -> "HIGH_RISK"
    [] hook.stage = "allowed" -> "ALLOWED"
    [] hook.stage \in {"warn", "limit"} -> "WARN"
    [] hook.stage \in {"permit_not_required", "no_permit", "permit_mismatch", "permitted"} ->
         "PERMIT_REQUIRED"

\* the severities of the current policy schema
PolicySeverity == {"HIGH_RISK", "WARN", "PERMIT_REQUIRED", "ALLOWED"}

RuleSeverity == classifySeverity(RulesFor(policy, ActionType), hook.input.value).severity
OnHighRiskList ==
  LET list == policy.highRiskPatterns[ActionType]
  IN \E i \in 1..Len(list) : minimatch(hook.input.value, list[i])
OnAllowList ==
  LET list == policy.alwaysAllow[ActionType]
  IN \E i \in 1..Len(list) : minimatch(hook.input.value, list[i])

\* the tier the precedence HIGH_RISK > ALLOWED > WARN > PERMIT_REQUIRED gives,
\* hardBlock being the severities handled at the top tier
TierBy(hardBlock) ==
  IF RuleSeverity \in hardBlock \/ OnHighRiskList THEN "HIGH_RISK"
  ELSE IF RuleSeverity = "ALLOWED" \/ OnAllowList THEN "ALLOWED"
  ELSE IF RuleSeverity = "WARN" THEN "WARN"
  ELSE "PERMIT_REQUIRED"

\* C14 (amended): the dispatch handles an action by the precedence HIGH_RISK >
\* ALLOWED > WARN > PERMIT_REQUIRED over the severity of its rule and the two
\* pattern lists, an action with no signal as PERMIT_REQUIRED; and a rule of
\* the legacy severity HARD_BLOCK counts as no signal.
C14_Precedence ==
  (ActionRun /\ hook.stage \in LocalStages) => Verdict = TierBy({"HIGH_RISK"})

\* C14 witness: an action on the high-risk list and on the allow list at once
\* was handled as high-risk
C14_HighRiskOverAllowed ==
  /\ ActionRun
  /\ OnHighRiskList
  /\ OnAllowList
  /\ hook.stage = "high_risk"

\* C14 (as stated): the same precedence, with a rule of the legacy severity
\* HARD_BLOCK handled at the top tier.
C14_HardBlockAtTopTier ==
  (ActionRun /\ hook.stage \in LocalStages) => Verdict = TierBy({"HIGH_RISK", "HARD_BLOCK"})

\* ------------------------------------------------------ the warning counters
maxWarnings == policy.warningConfig.maxWarningsBeforeBlock

\* the tracker as a run starting now loads it, and whether its reset is due
LoadedTracker == loadViolations(violations, clock)
ResetDue == shouldResetWarnings(LoadedTracker, policy.warningConfig.warningResetMinutes, clock)

\* the count violations.json holds for a pattern
Persisted(file, pattern) ==
  IF file.exists /\ pattern \in DOMAIN file.warningCounts
  THEN file.warningCounts[pattern] ELSE 0

\* the response is the escalating warning, naming what is left of the budget
UsesEscalating(response, remaining) ==
  /\ response.userMessage # None
  /\ response.userMessage[1].template = "Warning ({count}/{max}): {reason}"
  /\ response.agentMessage[1].template =
       "Action allowed with warning. {count} warnings remaining."
  /\ response.agentMessage[1].count = remaining

\* the response is the "limit reached" message recommending a permit
UsesLimitReached(response) ==
  /\ response.userMessage # None
  /\ response.userMessage[1].template = "Warning ({count}/{max}): {reason} - limit reached"
  /\ response.agentMessage[1].template =
       "Action allowed, but warning limit reached. Consider requesting a permit."

\* the run of this step answered from the WARN branch, within the reset window
WarnedInWindow(input) ==
  /\ hook'.input = input
  /\ Gate(input)
  /\ ~ResetDue
  /\ hook'.stage \in {"warn", "limit"}

\* C15 (amended): within the reset window a WARN classification made while
\* the counter of its pattern is below maxWarningsBeforeBlock counts one up
\* and answers with the escalating warning naming the budget left, the one
\* that brings the counter to the threshold included (0 left); the
\* "limit reached" message answers the classifications made while the counter
\* already is at the threshold.
C15_LimitAfterThreshold ==
  [][\A input \in HookInputs :
       WarnedInWindow(input) =>
         LET pattern == hook'.rule[1].pattern
             before == Persisted(violations, pattern)
             after == Persisted(violations', pattern)
         IN /\ before < maxWarnings =>
                 (after = before + 1 /\ UsesEscalating(hook'.response, maxWarnings - after))
            /\ before >= maxWarnings => UsesLimitReached(hook'.response)]_vars

\* C15 witness: the third warning of a pattern in a row, counted 3 of 3 and
\* answered with the escalating warning
C15_ThirdWarning ==
  /\ hook.stage = "warn"
  /\ maxWarnings = 3
  /\ Persisted(violations, hook.rule[1].pattern) = 3
  /\ UsesEscalating(hook.response, 0)

\* C15 (as stated): the classification that brings the counter to the
\* threshold is answered with the "limit reached" message, those that leave
\* it below with the escalating warning.
C15_LimitAtThreshold ==
  [][\A input \in HookInputs :
       WarnedInWindow(input) =>
         LET pattern == hook'.rule[1].pattern
             after == Persisted(violations', pattern)
         IN /\ after < maxWarnings => UsesEscalating(hook'.response, maxWarnings - after)
            /\ after >= maxWarnings => UsesLimitReached(hook'.response)]_vars

\* the run of this step answered from the WARN branch
Warned(input) ==
  /\ hook'.input = input
  /\ Gate(input)
  /\ hook'.stage \in {"warn", "limit"}

\* the count the run starts from: the persisted one, or 0 when the reset is due
CountBefore(pattern) == IF ResetDue THEN 0 ELSE Persisted(violations, pattern)

ReachedReset(input) ==
  /\ hook'.input = input
  /\ Gate(input)
  /\ hook'.stage \notin {"invalid_json", "fatal"}

RequiresPermit(pol, actionType) ==
  CASE actionType = "shell" -> pol.requirePermitForShell
    [] actionType = "mcp" -> pol.requirePermitForMcp
    [] actionType = "read" -> pol.requirePermitForRead

\* some unexpired permit of permits.json allows the action
SomeValidPermitMatches(actionType, value) ==
  \E i \in 1..Len(permits) :
    /\ permits[i].expires_at > clock
    /\ \E j \in 1..Len(permits[i].allow[actionType]) :
         minimatch(value, permits[i].allow[actionType][j])

\* the run of this step went through the dispatch and the action is a
\* PERMIT_REQUIRED one
PermitRequiredRun(input) ==
  /\ hook'.input = input
  /\ Gate(input)
  /\ hook'.stage \in LocalStages
  /\ LET actionType == ActionTypes[input.event]
     IN /\ hook'.severity \notin {"HIGH_RISK", "ALLOWED", "WARN"}
        /\ ~globAny(policy.highRiskPatterns[actionType], input.value)
        /\ ~globAny(policy.alwaysAllow[actionType], input.value)

\* the response suggests a permit request with the allow field of the kind of
\* action and the action itself as the pattern
SuggestsExactPermit(response, actionType, value) ==
  /\ response.warning # None
  /\ response.warning[1].suggestedAction.field =
       (CASE actionType = "shell" -> "allow_shell"
          [] actionType = "mcp" -> "allow_mcp"
          [] actionType = "read" -> "allow_read")
  /\ response.warning[1].suggestedAction.pattern = value

C19_AnyValidPermitCovers ==
  [][\A input \in HookInputs :
       (/\ PermitRequiredRun(input)
        /\ RequiresPermit(policy, ActionTypes[input.event]))
         => (hook'.response.warning = None
               <=> SomeValidPermitMatches(ActionTypes[input.event], input.value))]_vars

\* ====================================================== the permit authority
\* checks.json holds an approved record for the step
Approved(checksDoc, step_id) ==
  \E i \in 1..Len(checksDoc) :
    /\ checksDoc[i].step_id = step_id
    /\ checksDoc[i].on_goal
    /\ checksDoc[i].score >= ApprovalThreshold

\* C20: every permit of permits.json names a step with an approved record in
\* checks.json; guardian_issue_permit for a step whose record is missing or
\* not approved is refused, draws no token and leaves permits.json as it was.
C20_PermitsOnlyForApproved ==
  [][/\ \A i \in 1..Len(permits') : Approved(checks', permits'[i].step_id)
     /\ \A id \in StepIds, ttl \in Ttls, allow \in Allows :
          (IssuePermit(id, ttl, allow) /\ ~Approved(checks, id))
            => (~last'.ok /\ permits' = permits /\ idSeq' = idSeq)]_vars

\* C20 witness: with a permit issued for an approved step, the request for a
\* step whose check was not approved was refused
C20_UnapprovedRefused ==
  /\ permits # <<>>
  /\ last = [op |-> "guardian_issue_permit", type |-> last.type, ok |-> FALSE,
             error |-> "Step is not approved"]
  /\ \E i \in 1..Len(checks) : checks[i].step_id = last.type /\ ~checks[i].on_goal

\* -------------------------------------------------------------- check_step
\* what the contract and the call must satisfy for a step to be approved
HasGoal == trim(store.contract.goal) # ""
HasCriteria == Len(store.contract.success_criteria) >= 1
MapsToKnown(mapsTo) ==
  \A i \in 1..Len(mapsTo) :
    \E k \in 1..Len(store.contract.success_criteria) : mapsTo[i] = CriterionIds[k]
OnGoal(step, mapsTo) ==
  HasGoal /\ HasCriteria /\ MapsToKnown(mapsTo) /\ ~looksLikeScopeExpansion(step)

\* C21: guardian_check_step puts exactly one new record at the head of
\* checks.json and leaves the older records as they were; the record is
\* approved (on_goal true, score 1, i.e. 10 tenths) exactly when the contract
\* has a goal and at least one success criterion, every id of maps_to is a
\* criterion id of the contract and the step holds no scope-expansion phrase;
\* otherwise it is unapproved (on_goal false and a score under the threshold).
C21_ApprovedExactlyWhenOnGoal ==
  [][\A step \in Steps, mapsTo \in MapsTos :
       CheckStep(step, mapsTo) =>
         /\ Len(checks') = Len(checks) + 1
         /\ SubSeq(checks', 2, Len(checks')) = checks
         /\ checks'[1].step = step /\ checks'[1].maps_to = mapsTo
         /\ \A i \in 1..Len(checks) : checks[i].step_id # checks'[1].step_id
         /\ IF OnGoal(step, mapsTo)
            THEN checks'[1].on_goal /\ checks'[1].score = 10
            ELSE ~checks'[1].on_goal /\ checks'[1].score < ApprovalThreshold]_vars

\* an approved record stored on top of one refused for its wording
C21_ApprovedAndRefused ==
  /\ Len(checks) >= 2
  /\ last.op = "guardian_check_step"
  /\ checks[1].on_goal /\ checks[1].score = 10
  /\ ~checks[2].on_goal /\ checks[2].step = "Also tidy the router"
  /\ validateMapsTo(store.contract, checks[2].maps_to)

\* ------------------------------------------------------------ commit_result
Tokens(doc) == {doc[i].token : i \in 1..Len(doc)}
PositionOf(doc, token) == CHOOSE i \in 1..Len(doc) : doc[i].token = token
PermitsOf(doc, step_id) == {i \in 1..Len(doc) : doc[i].step_id = step_id}

\* C22: guardian_commit_result(stepId) puts exactly one record, for stepId, at
\* the head of progress.json and leaves permits.json without any permit of
\* stepId, so that no lookup of the active permit gives one of its tokens; the
\* permits of other steps stay, field for field and in the order they had.
C22_CommitRevokesOnlyItsStep ==
  [][\A id \in StepIds :
       CommitResult(id) =>
         /\ Len(progress') = Len(progress) + 1
         /\ SubSeq(progress', 2, Len(progress')) = progress
         /\ progress'[1].step_id = id
         /\ PermitsOf(permits', id) = {}
         /\ \A t \in clock..MaxGateClock :
              LET active == loadActivePermit(permits', t)
              IN active # None =>
                   active[1].token \notin {permits[i].token : i \in PermitsOf(permits, id)}
         /\ \A i \in 1..Len(permits) :
              permits[i].step_id # id =>
                \E k \in 1..Len(permits') : permits'[k] = permits[i]
         /\ Tokens(permits') \subseteq Tokens(permits)
         /\ \A k, l \in 1..Len(permits') :
              k < l => PositionOf(permits, permits'[k].token)
                         < PositionOf(permits, permits'[l].token)
         /\ checks' = checks]_vars

\* a commit took the one permit of its step from between two of the other step
C22_RevokedBetweenTwo ==
  /\ last.op = "guardian_commit_result"
  /\ Len(progress) = 1 /\ progress[1].step_id = last.type
  /\ Len(permits) = 2
  /\ permits[1].step_id = permits[2].step_id
  /\ permits[1].step_id # last.type
  /\ permits[1].expires_at > permits[2].expires_at

\* the steps guardian_commit_result has been called for
Committed == {progress[i].step_id : i \in 1..Len(progress)}

\* C23: once guardian_commit_result(stepId) has completed, permits.json holds
\* no unexpired permit of stepId, whatever calls of guardian_check_step,
\* guardian_issue_permit and guardian_commit_result follow (a later
\* guardian_check_step gives its record a new step_id, so the record of
\* stepId is never checked again).
C23_NoPermitAfterCommit ==
  \A i \in 1..Len(permits) :
    permits[i].step_id \in Committed => permits[i].expires_at <= clock

\* ----------------------------------------------------------- expired permits
Expired(doc) == {i \in 1..Len(doc) : doc[i].expires_at <= clock}

Stages ==
  LocalStages \cup {"invalid_json", "fatal", "empty", "redux_control", "scope_drift",
                    "preview", "after_edit", "other_event"}

C26_InvalidJsonTouchesNothing ==
  [][\A input \in HookInputs :
       input.raw # "json" /\ hook'.input = input /\ Gate(input) =>
         /\ hook'.stage = "invalid_json"
         /\ hook'.response.continue = TRUE /\ hook'.response.permission = "allow"
         /\ hook'.response.agentMessage # None
         /\ hook'.response.agentMessage[1].template
              = "Goal-Guardian hook: invalid JSON payload; allowing."
         /\ hook'.response.warning = None
         /\ hook'.audited = 0
         /\ violations' = violations]_vars

\* malformed input was answered, and warning counts that are due for a reset
\* are still on file
C26_InvalidJsonWhenResetDue ==
  /\ hook.stage = "invalid_json"
  /\ hook.audited = 0
  /\ violations.exists
  /\ ResetDue
  /\ \E pattern \in DOMAIN violations.warningCounts : violations.warningCounts[pattern] > 0

\* ------------------------------------------------- the preview call failing
\* the same action put to a hook that was not given the MCP server
Undelegated(input) == [input EXCEPT !.mcpPath = FALSE]
LocalVerdict(input) ==
  main(Undelegated(input), policy, permits, store.state, violations, store.contract, clock)

C28_NoPartialFileRead ==
  last.op = "readFile" => last.ok

\* ------------------------------------------------------- the high-risk tier
\* a run under the default policy, answered by the hook's own checks, on an
\* action of the tier that used to be denied
DefaultPolicyRun ==
  /\ ActionRun
  /\ policy = defaultPolicy
  /\ hook.input.preview = None
  /\ IsHighRisk(policy, ActionType, hook.input.value)

StateMissing == ~store.state.exists
ActiveTaskUnset == store.state.exists /\ store.state.doc.active_task \in {Null, ""}
ActiveTaskInvalid ==
  /\ store.state.exists
  /\ store.state.doc.active_task \notin {Null, ""}
  /\ ~\E i \in 1..Len(store.state.doc.tasks) :
        /\ store.state.doc.tasks[i].id = store.state.doc.active_task
        /\ store.state.doc.tasks[i].status = "doing"
ControlledRun ==
  /\ ActionRun
  /\ policy.enforceReduxControl
  /\ ~(ActionType = "read" /\ isBootstrapReadPath(hook.input.value))

\* C30: with enforceReduxControl on, a shell, MCP or non-bootstrap read action
\* is answered with an advisory warning (of whatever check) whenever
\* state.json is missing, active_task is not set, or active_task does not name
\* an existing task in 'doing' status.
C30_WarnsWithoutValidTask ==
  (ControlledRun /\ (StateMissing \/ ActiveTaskUnset \/ ActiveTaskInvalid))
    => /\ hook.response.userMessage # None
       /\ hook.response.warning # None

\* ------------------------------------------------------- scope drift: exemptions
\* the scope check ran on an action
ScopeChecked == scopeRun.actionType # ""

\* state.json is missing or names no active task
NoActiveTask == ~store.state.exists \/ store.state.doc.active_task = Null

\* the action is of an exempt shape: a neutral git or package-manager command,
\* a read of a manifest, a read of a pinned path, a tool of the guardian's own
\* MCP server
ExemptShape ==
  \/ scopeRun.actionType = "shell" /\ scopeRun.actionValue \in {"git status --force", "pnpm test"}
  \/ scopeRun.actionType = "read" /\ scopeRun.actionValue = "apps/billing/package.json"
  \/ /\ scopeRun.actionType = "read"
     /\ store.state.exists
     /\ scopeRun.actionValue \in Range(store.state.doc.pinned_context)
  \/ scopeRun.actionType = "mcp" /\ scopeRun.actionValue = "goal-guardian/guardian_check_step"

\* the terms the detector compares: those of the active task's title and the
\* goal, and those of the action
TaskTerms ==
  taskScopeTerms(<<activeTaskTitle(store.state.doc, store.state.doc.active_task),
                   store.state.doc.goal>>)
ActionTerms == actionScopeTerms(scopeRun.actionValue)

\* C31: the scope check finds no drift and writes no warning when state.json
\* is missing or names no active task, and when the action is of an exempt
\* shape, whatever the terms of the task and of the action are.
C31_NoSignalWhenExempt ==
  (ScopeChecked /\ (NoActiveTask \/ ExemptShape)) =>
    (scopeRun.result = None /\ scopeRun.response = None)

\* C31 witness: in strict mode a neutral git command that shares no term with
\* the active task, and has terms enough for a drift, raised none
C31_NeutralCommandOffTask ==
  /\ ScopeChecked
  /\ scopeRun.actionValue = "git status --force"
  /\ policy.taskScopeSensitivity = "strict"
  /\ ~NoActiveTask
  /\ Len(TaskTerms) >= 1 /\ Len(ActionTerms) >= 1
  /\ Range(TaskTerms) \cap Range(ActionTerms) = {}
  /\ scopeRun.result = None

\* ------------------------------------------------------ scope drift: sensitivity
\* what the detector finds for the action last checked when policy.json asks
\* for that mode, everything else as it is
InMode(mode) ==
  evaluateTaskScopeDrift([policy EXCEPT !.taskScopeSensitivity = mode], store.state,
                         scopeRun.actionType, scopeRun.actionValue)

\* the mode in force: the one policy.json names, balanced for any other value
ModeInForce ==
  IF policy.taskScopeSensitivity \in {"strict", "lenient"}
  THEN policy.taskScopeSensitivity ELSE "balanced"

\* the least numbers of task terms and action terms of each mode
LeastTerms ==
  [strict |-> [task |-> 1, action |-> 1],
   balanced |-> [task |-> 2, action |-> 2],
   lenient |-> [task |-> 2, action |-> 3]]

\* C32: for the same state, active task and action, a drift found in lenient
\* mode is found in balanced mode too, and one found in balanced mode is found
\* in strict mode too; a drift is found only when the task terms and the
\* action terms reach the least numbers of the mode in force and have no
\* term in common; and what the hook writes for it is a warning with
\* permission allow, never a denial.
C32_MonotoneAdvisory ==
  ScopeChecked =>
    /\ InMode("lenient") # None => InMode("balanced") # None
    /\ InMode("balanced") # None => InMode("strict") # None
    /\ scopeRun.result # None =>
         /\ ~NoActiveTask
         /\ Len(TaskTerms) >= LeastTerms[ModeInForce].task
         /\ Len(ActionTerms) >= LeastTerms[ModeInForce].action
         /\ Range(TaskTerms) \cap Range(ActionTerms) = {}
         /\ scopeRun.response # None
         /\ scopeRun.response[1].permission = "allow"
         /\ scopeRun.response[1].userMessage # None
         /\ scopeRun.response[1].warning # None

\* C32 witness: two terms of an action raise a drift in balanced mode and none
\* in lenient mode, and the drift was answered with a warning
C32_BalancedWarnsLenientSilent ==
  /\ ScopeChecked
  /\ ModeInForce = "balanced"
  /\ Len(ActionTerms) = 2
  /\ scopeRun.result # None
  /\ scopeRun.response[1].permission = "allow"
  /\ InMode("lenient") = None
  /\ InMode("strict") # None

\* ------------------------------------------------- cleanup of the legacy wiring
\* the hooks and the MCP servers a file lists
HooksOf(file) ==
  IF file.parses /\ file.doc.hooks # None THEN file.doc.hooks[1] ELSE <<>>
ServersOf(file) ==
  IF file.parses /\ file.doc.mcpServers # None THEN file.doc.mcpServers[1] ELSE <<>>

\* the workspace holds a goal-guardian entry: a handler of hooks.json that
\* runs the hook, or a goal-guardian server in mcp.json
LegacyCommands == {GuardianHook, "cursor-goal-guardian-hook"}
HasLegacyEntries ==
  \/ \E i \in 1..Len(HooksOf(cursorDir.hooks)) :
       Range(HooksOf(cursorDir.hooks)[i].handlers.commands) \cap LegacyCommands # {}
  \/ \E i \in 1..Len(ServersOf(cursorDir.mcp)) :
       ServersOf(cursorDir.mcp)[i].name = "goal-guardian"

\* this step is a run of the cleanup that reports nothing cleaned, writes no
\* file and adds no backup
RunChangesNothing ==
  /\ cursorDir'.result = Some([hooksCleaned |-> FALSE, mcpCleaned |-> FALSE])
  /\ cursorDir'.wrote = {}
  /\ cursorDir'.hooks = cursorDir.hooks
  /\ cursorDir'.mcp = cursorDir.mcp
  /\ cursorDir'.backups = cursorDir.backups

\* C33: a run of cleanupLegacyIntegration that follows another run reports
\* hooksCleaned = false and mcpCleaned = false, rewrites no file and creates
\* no backup; and so does a run on a workspace without goal-guardian entries,
\* the files missing included.
C33_CleanupIdempotent ==
  [][(Cleanup /\ (cursorDir.result # None \/ ~HasLegacyEntries)) => RunChangesNothing]_vars

\* C33 witness: the second run on a workspace whose first run cleaned both
\* files and left a backup of each
C33_SecondRunAfterCleaning ==
  /\ cursorDir.result = Some([hooksCleaned |-> FALSE, mcpCleaned |-> FALSE])
  /\ \E b \in cursorDir.backups : b.of = "hooks.json"
  /\ \E b \in cursorDir.backups : b.of = "mcp.json"
  /\ Cardinality(cursorDir.backups) = 2

\* ------------------------------------------------------- the stamp of a dispatch
\* this step is a call of dispatchAction of SpecJs that succeeded
DispatchedJs(p) == Dispatch(p, MaxJsActions) /\ last'.ok

\* the state dispatchAction loads: state.json, seeded first if it was missing
LoadedDoc == ensureStateStoreFiles(store, clock).state.doc

\* C34: after a successful dispatch the persisted state has _meta.lastActionId
\* equal to the id of the dispatched action, _meta.actionCount one greater
\* than the state the call loaded, and _meta.hash equal to the hash computed
\* over the persisted state; and actions.jsonl is the log of before with that
\* one action appended. With the built-in reducer and with reducer.js alike.
C34_DispatchStampsMeta ==
  [][\A p \in Partials(CurrentDoc) :
       DispatchedJs(p) =>
         LET log == store'.actions.log
             action == log[Len(log)]
             doc == store'.state.doc
         IN /\ Len(log) = Len(store.actions.log) + 1
            /\ SubSeq(log, 1, Len(log) - 1) = store.actions.log
            /\ action.type = p.type /\ action.payload = p.payload
            /\ action.id = newId(idSeq)
            /\ doc.meta.lastActionId = action.id
            /\ doc.meta.actionCount = LoadedDoc.meta.actionCount + 1
            /\ doc.meta.hash = computeHash(doc)]_vars

\* ------------------------------------------------------------------ snapshots
\* the state that replaying the first n actions of the log gives, from the
\* state the store began with
ReplayOfLog(n) ==
  replay(SeededStore.state.doc, SubSeq(store.actions.log, 1, n), 1,
         rules, reducerJs, clock, idSeq)

\* the snapshot holds what the replay of the actions up to lastActionIndex gives
SnapshotIsReplay ==
  store.snapshot.exists =>
    /\ ReplayOfLog(store.snapshot.lastActionIndex + 1).ok
    /\ View(ReplayOfLog(store.snapshot.lastActionIndex + 1).state) = View(store.snapshot.state)

\* C35: with snapshotInterval = N > 0, a successful dispatch that brings the
\* length of the log to a multiple of N writes a snapshot with lastActionIndex
\* = length - 1 and the state just persisted, any other dispatch leaves
\* snapshot.json as it is; and at all times the state of the snapshot is
\* what the replay of the log entries 0..lastActionIndex gives.
C35_SnapshotFollowsLog ==
  [][/\ \A p \in Partials(CurrentDoc) :
          (Dispatch(p, MaxActions) /\ last'.ok /\ rules.snapshotInterval > 0) =>
            IF Len(store'.actions.log) % rules.snapshotInterval = 0
            THEN store'.snapshot =
                   [exists |-> TRUE, lastActionIndex |-> Len(store'.actions.log) - 1,
                    state |-> store'.state.doc]
            ELSE store'.snapshot = store.snapshot
     /\ SnapshotIsReplay']_vars


\* -------------------------------------------------- the result of reducer.js
\* rules.json prefers reducer.js and a function could be loaded from it
Delegated == rules.preferredReducer = "js" /\ reducerJs # "unloadable"

\* the action dispatchAction builds from the partial p
ActionOf(p) ==
  [id |-> newId(idSeq), ts |-> clock, actor |-> p.actor, type |-> p.type,
   payload |-> p.payload]

\* the dispatch failed and left the log, the state, the snapshot and the
\* contract as they were (state.json seeded if it was missing)
NothingPersisted ==
  /\ ~last'.ok
  /\ store'.actions.log = store.actions.log
  /\ store'.state = ensureStateStoreFiles(store, clock).state
  /\ store'.snapshot = store.snapshot
  /\ store'.contract = store.contract

\* the state holds a task or a question whose status the state schema does
\* not know
FailsStateSchema(state) ==
  \/ \E i \in 1..Len(state.tasks) : state.tasks[i].status \notin TaskStatuses
  \/ \E i \in 1..Len(state.open_questions) :
        state.open_questions[i].status \notin QuestionStatuses

AllowedRun(input) ==
  /\ hook'.input = input
  /\ hook'.stage = "allowed"
  /\ Gate(input)

\* the answer lets the action through and carries no message and no warning
PassesSilently ==
  /\ hook'.response.continue /\ hook'.response.permission = "allow"
  /\ hook'.response.userMessage = None
  /\ hook'.response.agentMessage = None
  /\ hook'.response.warning = None

\* the reset window had run out when the hook started
WindowElapsed ==
  violations.exists
    /\ clock - violations.lastReset >= policy.warningConfig.warningResetMinutes

C38_ActiveTaskIsDoing ==
  (store.state.exists /\ rules.preferredReducer = "json")
    => \/ Doc.active_task = Null
       \/ TaskStatus(Doc, Doc.active_task) = "doing"

\* C38 witness: the active task was completed and no task is active
C38_ActiveTaskCompleted ==
  /\ last = [op |-> "dispatch", type |-> "COMPLETE_TASK", ok |-> TRUE, error |-> ""]
  /\ rules.preferredReducer = "json"
  /\ Doc.active_task = Null
  /\ TaskStatus(Doc, "t1") = "done"
  /\ TaskStatus(Doc, "t2") = "todo"


\* ------------------------------------------------------- the meta of the state
\* C39: the persisted state counts the actions of actions.jsonl in
\* _meta.actionCount and names the last of them in _meta.lastActionId (null
\* while the log is empty), after any dispatches and rebuilds.
C39_MetaFollowsLog ==
  store.state.exists =>
    /\ Doc.meta.actionCount = Len(store.actions.log)
    /\ Doc.meta.lastActionId =
         IF store.actions.log = <<>> THEN Null
         ELSE store.actions.log[Len(store.actions.log)].id


\* ------------------------------------------------------- warnings that overlap
\* the runs answered with a warning for the pattern that started in the
\* window violations.json is in
WarnedInFileWindow(pattern) ==
  {i \in 1..Len(gateRuns.warned) :
     /\ gateRuns.warned[i].pattern = pattern
     /\ gateRuns.warned[i].started >= violations.lastReset}

AtMost(n, m) == IF n < m THEN n ELSE m

\* C40: when no run of the hook is under way, the count violations.json holds
\* for a pattern is the number of runs that matched its WARN rule in the
\* window, up to maxWarningsBeforeBlock: no increment is lost, also when runs
\* overlap.
C40_NoIncrementLost ==
  (Running = {} /\ violations.exists) =>
    \A i \in 1..Len(gateRuns.warned) :
      getWarningCount(violations, gateRuns.warned[i].pattern)
        = AtMost(Cardinality(WarnedInFileWindow(gateRuns.warned[i].pattern)),
                 policy.warningConfig.maxWarningsBeforeBlock)

====
